---- MODULE Spec2Model ----
(***************************************************************************)
(* Model of the Agent Invocation Orchestrator of Image2Code                *)
(* (app/services/vlmAgent.ts): one invocation of runVlmAgent, the worker   *)
(* process it starts, the two stream drains, the deadline timer, the       *)
(* parse/classify step, the fallback policy and the message normalizer.    *)
(*                                                                         *)
(* Text is a sequence of fragments (TLA+ strings).  Text the code inspects *)
(* character by character (error messages, code, steps) is written one     *)
(* character per fragment; fixed literals the code only concatenates are   *)
(* one fragment.  The worker's primary output is a sequence of JSON        *)
(* tokens; JSONparse turns it into a value or a SyntaxError.               *)
(***************************************************************************)
EXTENDS Integers, Sequences, FiniteSets, TLC

(***************************************************************************)
(* Bounds                                                                  *)
(***************************************************************************)
\* largest number of data chunks the worker's primary output arrives in
MaxStdoutChunks == 2

(***************************************************************************)
(* Text primitives                                                         *)
(***************************************************************************)
\* the JavaScript value undefined / null where a string is expected
Undefined == <<"#undefined">>
Null == <<"#null">>

IsString(x) == x # Undefined /\ x # Null

UpperToLower ==
  [A |-> "a", B |-> "b", C |-> "c", D |-> "d", E |-> "e", F |-> "f",
   G |-> "g", H |-> "h", I |-> "i", J |-> "j", K |-> "k", L |-> "l",
   M |-> "m", N |-> "n", O |-> "o", P |-> "p", Q |-> "q", R |-> "r",
   S |-> "s", T |-> "t", U |-> "u", V |-> "v", W |-> "w", X |-> "x",
   Y |-> "y", Z |-> "z"]

\* String.prototype.toLowerCase
toLowerCase(s) ==
  [i \in 1..Len(s) |->
     IF s[i] \in DOMAIN UpperToLower THEN UpperToLower[s[i]] ELSE s[i]]

\* String.prototype.includes
includes(hay, needle) ==
  \E i \in 0..(Len(hay) - Len(needle)) :
     SubSeq(hay, i + 1, i + Len(needle)) = needle

WhiteSpace == {" ", "\n", "\t", "\n\n"}

RECURSIVE trimStart(_)
trimStart(s) ==
  IF s # <<>> /\ Head(s) \in WhiteSpace THEN trimStart(Tail(s)) ELSE s

RECURSIVE trimEnd(_)
trimEnd(s) ==
  IF s # <<>> /\ s[Len(s)] \in WhiteSpace
  THEN trimEnd(SubSeq(s, 1, Len(s) - 1))
  ELSE s

\* String.prototype.trim
trim(s) == trimEnd(trimStart(s))

\* String.prototype.split("\n"): the lines of s (at least one, maybe empty)
RECURSIVE splitLines(_, _, _)
splitLines(s, cur, acc) ==
  IF s = <<>> THEN Append(acc, cur)
  ELSE IF Head(s) = "\n" THEN splitLines(Tail(s), <<>>, Append(acc, cur))
  ELSE splitLines(Tail(s), Append(cur, Head(s)), acc)

split(s) == splitLines(s, <<>>, <<>>)

\* Array.prototype.join(sep) over texts
RECURSIVE join(_, _)
join(parts, sep) ==
  IF parts = <<>> THEN <<>>
  ELSE IF Len(parts) = 1 THEN parts[1]
  ELSE parts[1] \o sep \o join(Tail(parts), sep)

\* Buffer.concat(chunks).toString("utf8")
RECURSIVE concat(_)
concat(chunks) ==
  IF chunks = <<>> THEN <<>> ELSE Head(chunks) \o concat(Tail(chunks))

(***************************************************************************)
(* Literals of vlmAgent.ts                                                 *)
(***************************************************************************)
FailedToStartPrefix ==
  <<"F","a","i","l","e","d"," ","t","o"," ","s","t","a","r","t"," ","p","y",
    "t","h","o","n"," ","p","r","o","c","e","s","s",":"," ">>
\* variant: the timeout reason reworded
TimedOutMessageReworded == <<"Python agent took too long.">>

TimedOutMessage ==
  <<"P","y","t","h","o","n"," ","a","g","e","n","t"," ","t","i","m","e","d",
    " ","o","u","t",".">>
UnableToParsePrefix ==
  <<"U","n","a","b","l","e"," ","t","o"," ","p","a","r","s","e"," ","p","y",
    "t","h","o","n"," ","o","u","t","p","u","t",":"," ">>
ProcessErrorPrefix ==
  <<"P","y","t","h","o","n"," ","p","r","o","c","e","s","s"," ","e","r","r",
    "o","r",":"," ">>
NeedleFailedToStart ==
  <<"f","a","i","l","e","d"," ","t","o"," ","s","t","a","r","t"," ","p","y",
    "t","h","o","n"," ","p","r","o","c","e","s","s">>
NeedleAgentTimedOut ==
  <<"p","y","t","h","o","n"," ","a","g","e","n","t"," ","t","i","m","e","d",
    " ","o","u","t">>
NeedleTimedOut ==
  <<"t","i","m","e","d"," ","o","u","t">>
NeedleUnableToParse ==
  <<"u","n","a","b","l","e"," ","t","o"," ","p","a","r","s","e"," ","p","y",
    "t","h","o","n"," ","o","u","t","p","u","t">>
NeedleProcessError ==
  <<"p","y","t","h","o","n"," ","p","r","o","c","e","s","s"," ","e","r","r",
    "o","r">>

NoReasonMessage == <<"The VLM agent failed without providing a reason.">>
UnknownSpawnError == <<"Unknown spawn error">>
UnknownProcessError == <<"Unknown process error">>

PlanPrefix == "Here's the plan I'll follow:"
StepsPrefix == "Detailed steps:"
CodePrefix == "Generated Python snippet:"
PreviewContent == "Here's the rendered preview."
FeedbackPrefix == "Latest feedback: "
ErrorNotePrefix == "Executor reported an issue: "
CatchAllContent == "The agent completed without generating any updates."
DefaultPreviewName == <<"agent-preview.png">>

FallbackStatusText ==
  "Fallback pathway used because the Python VLM agent is unavailable."
HardStatusText == "The VLM agent could not complete the request."
SuccessStatusText == "VLM agent generated a fresh response."

(***************************************************************************)
(* shouldUseFallback (vlmAgent.ts 343-358)                                 *)
(***************************************************************************)
\* variant: the message matched without lower-casing it first
shouldUseFallbackNoLowerCase(errorMessage) ==
  \/ includes(errorMessage, NeedleFailedToStart)
  \/ includes(errorMessage, NeedleAgentTimedOut)
  \/ includes(errorMessage, NeedleTimedOut)
  \/ includes(errorMessage, NeedleUnableToParse)
  \/ includes(errorMessage, NeedleProcessError)

\* variant: the parse-failure test left out
shouldUseFallbackNoParse(errorMessage) ==
  LET lower == toLowerCase(errorMessage) IN
    \/ includes(lower, NeedleFailedToStart)
    \/ includes(lower, NeedleAgentTimedOut)
    \/ includes(lower, NeedleTimedOut)
    \/ includes(lower, NeedleProcessError)

shouldUseFallback(errorMessage) ==
  LET lower == toLowerCase(errorMessage) IN
    \/ includes(lower, NeedleFailedToStart)
    \/ includes(lower, NeedleAgentTimedOut)
    \/ includes(lower, NeedleTimedOut)
    \/ includes(lower, NeedleUnableToParse)
    \/ includes(lower, NeedleProcessError)

(***************************************************************************)
(* JavaScript values as they come out of JSON.parse                        *)
(***************************************************************************)
\* a leaf value: t is its type, s its text (strings), a its items (arrays
\* of strings), b its truth value (booleans)
JUndef == [t |-> "undefined", s |-> <<>>, a |-> <<>>, b |-> FALSE]
JNull == [t |-> "null", s |-> <<>>, a |-> <<>>, b |-> FALSE]
JNum == [t |-> "num", s |-> <<>>, a |-> <<>>, b |-> FALSE]
JObj == [t |-> "obj", s |-> <<>>, a |-> <<>>, b |-> FALSE]
JBool(b) == [t |-> "bool", s |-> <<>>, a |-> <<>>, b |-> b]
JStr(s) == [t |-> "str", s |-> s, a |-> <<>>, b |-> FALSE]
JArr(a) == [t |-> "arr", s |-> <<>>, a |-> a, b |-> FALSE]

\* ToBoolean: the numbers of the model are non-zero
Truthy(v) ==
  CASE v.t = "bool" -> v.b
    [] v.t = "str" -> v.s # <<>>
    [] v.t \in {"num", "arr", "obj"} -> TRUE
    [] OTHER -> FALSE

\* x ?? y takes y exactly when x is null or undefined
Nullish(v) == v.t \in {"undefined", "null"}

\* the text of a string-typed field, or the Undefined / Null marker
AsText(v) ==
  CASE v.t = "str" -> v.s
    [] v.t = "null" -> Null
    [] OTHER -> Undefined

\* PythonAgentResponse (vlmAgent.ts 18-44), its nested objects flattened
Keys ==
  {"success", "error", "logs", "result",
   "result.plan", "result.reasoning_steps", "result.code", "result.feedback",
   "result.error", "result.logs", "result.preview_image",
   "result.preview_image.name", "result.preview_image.dataUrl",
   "result.preview_image.size", "result.final_html_path",
   "result.final_html_web_path"}

NoFields == [k \in Keys |-> JUndef]

\* a parsed value: an object with its fields, or null, or a number
PyObject(f) == [t |-> "obj", f |-> f]
PyNull == [t |-> "null", f |-> NoFields]
PyNum == [t |-> "num", f |-> NoFields]

\* the value resolveResult has not been called with yet
Pending == [t |-> "pending", f |-> NoFields]

\* { success: false, error, logs } as built by runPythonProcess
PythonAgentError(error, logs) ==
  PyObject([NoFields EXCEPT
              !["success"] = JBool(FALSE),
              !["error"] = JStr(error),
              !["logs"] = IF logs = Undefined THEN JUndef ELSE JStr(logs)])

(***************************************************************************)
(* Sample texts carried by the worker's payloads                           *)
(***************************************************************************)
ErrBadInput == <<"b","a","d"," ","i","n","p","u","t">>
ErrWorkerTimedOut ==
  <<"R","e","q","u","e","s","t"," ","T","i","m","e","d"," ","O","u","t">>
PlanText == <<"P", " ">>
StepsText == <<"a", "\n", "b">>
StepsArray == <<(<<"a">>), (<<"b">>)>>
CodeText == <<" ", "c", "\n">>
FeedbackText == <<"F">>
ErrorNoteText == <<"E">>
PayloadLogs == <<"L">>
TopLogs == <<"T">>
DataUrl == <<"data:image/png;base64,AAAA">>
PreviewName == <<"shot.png">>
PreviewSize == <<"1024">>
HtmlPath == <<"out/final.html">>
HtmlWebPath == <<"/generated/final.html">>

(***************************************************************************)
(* JSON text: a sequence of tokens.  "{" and "}" bracket an object, a      *)
(* member token stands for one "key": value member, "null" and "5" are     *)
(* scalar documents; anything else is not JSON.                            *)
(***************************************************************************)
Member(k, v) == [k |-> k, v |-> v]

Lexicon ==
  ("success:true" :> Member("success", JBool(TRUE)))
  @@ ("success:false" :> Member("success", JBool(FALSE)))
  @@ ("error:bad input" :> Member("error", JStr(ErrBadInput)))
  @@ ("error:Request Timed Out" :> Member("error", JStr(ErrWorkerTimedOut)))
  @@ ("error:" :> Member("error", JStr(<<>>)))
  @@ ("error:5" :> Member("error", JNum))
  @@ ("logs:T" :> Member("logs", JStr(TopLogs)))
  @@ ("result:{}" :> Member("result", JObj))
  @@ ("plan:P" :> Member("result.plan", JStr(PlanText)))
  @@ ("plan:" :> Member("result.plan", JStr(<<>>)))
  @@ ("steps:a\\nb" :> Member("result.reasoning_steps", JStr(StepsText)))
  @@ ("steps:[a,b]" :> Member("result.reasoning_steps", JArr(StepsArray)))
  @@ ("steps:" :> Member("result.reasoning_steps", JStr(<<>>)))
  @@ ("steps:[]" :> Member("result.reasoning_steps", JArr(<<>>)))
  @@ ("code:c" :> Member("result.code", JStr(CodeText)))
  @@ ("code:" :> Member("result.code", JStr(<<>>)))
  @@ ("preview:{}" :> Member("result.preview_image", JObj))
  @@ ("preview.dataUrl:D" :>
        Member("result.preview_image.dataUrl", JStr(DataUrl)))
  @@ ("preview.dataUrl:" :>
        Member("result.preview_image.dataUrl", JStr(<<>>)))
  @@ ("preview.name:N" :>
        Member("result.preview_image.name", JStr(PreviewName)))
  @@ ("preview.size:1024" :>
        Member("result.preview_image.size", JStr(PreviewSize)))
  @@ ("feedback:F" :> Member("result.feedback", JStr(FeedbackText)))
  @@ ("feedback:" :> Member("result.feedback", JStr(<<>>)))
  @@ ("note:E" :> Member("result.error", JStr(ErrorNoteText)))
  @@ ("note:" :> Member("result.error", JStr(<<>>)))
  @@ ("note:null" :> Member("result.error", JNull))
  @@ ("result.logs:L" :> Member("result.logs", JStr(PayloadLogs)))
  @@ ("html:H" :> Member("result.final_html_path", JStr(HtmlPath)))
  @@ ("web:W" :> Member("result.final_html_web_path", JStr(HtmlWebPath)))

MemberTokens == DOMAIN Lexicon

SyntaxErrorEmpty == <<"Unexpected end of JSON input">>
SyntaxErrorToken == <<"Unexpected token">>

\* the members of an object text, the last member of a key winning
RECURSIVE parseMembers(_, _)
parseMembers(toks, f) ==
  IF toks = <<>> THEN f
  ELSE parseMembers(Tail(toks),
                    [f EXCEPT ![Lexicon[Head(toks)].k] = Lexicon[Head(toks)].v])

\* JSON.parse: [ok, value] on success, [~ok, message] on a SyntaxError
JSONparse(text) ==
  IF text = <<"null">> THEN [ok |-> TRUE, value |-> PyNull, message |-> <<>>]
  ELSE IF text = <<"5">> THEN [ok |-> TRUE, value |-> PyNum, message |-> <<>>]
  ELSE IF /\ Len(text) >= 2
          /\ text[1] = "{"
          /\ text[Len(text)] = "}"
          /\ \A i \in 2..(Len(text) - 1) : text[i] \in MemberTokens
  THEN [ok |-> TRUE,
        value |-> PyObject(parseMembers(SubSeq(text, 2, Len(text) - 1),
                                        NoFields)),
        message |-> <<>>]
  ELSE [ok |-> FALSE, value |-> PyNull,
        message |-> IF text = <<>> THEN SyntaxErrorEmpty
                    ELSE SyntaxErrorToken]

(***************************************************************************)
(* Response Parser / Classifier: the callback of Promise.all               *)
(* (vlmAgent.ts 117-146)                                                   *)
(***************************************************************************)
TypeErrorMessage == <<"Cannot read properties of undefined">>
TypeErrorAssign == <<"Cannot create property 'logs' on number '5'">>

\* the catch block (137-145): [stdout, stderr].filter(Boolean).join("\n\n")
combinedLogs(stdout, stderr) ==
  join(SelectSeq(<<stdout, stderr>>, LAMBDA x : x # <<>>), <<"\n\n">>)

parseFailure(message, stdout, stderr) ==
  PythonAgentError(UnableToParsePrefix \o message,
                   IF combinedLogs(stdout, stderr) = <<>> THEN Undefined
                   ELSE combinedLogs(stdout, stderr))

\* variant: the text of the diagnostic channel put first
mergeLogsChannelFirst(logs, stderr) ==
  IF Truthy(logs) THEN JStr(stderr \o <<"\n">> \o logs.s) ELSE JStr(stderr)

\* logs ? `${logs}\n${stderr}` : stderr   (129-131, 133)
mergeLogs(logs, stderr) ==
  IF Truthy(logs) THEN JStr(logs.s \o <<"\n">> \o stderr) ELSE JStr(stderr)

\* the value passed to resolveResult once both drains have ended
classify(stdout, stderr) ==
  LET p == JSONparse(stdout)
      v == p.value
  IN
  IF ~p.ok THEN parseFailure(p.message, stdout, stderr)
  ELSE IF stderr = <<>> THEN v
  ELSE IF v.t = "null" THEN parseFailure(TypeErrorMessage, stdout, stderr)
  ELSE IF Truthy(v.f["success"])
  THEN IF Nullish(v.f["result"])
       THEN parseFailure(TypeErrorMessage, stdout, stderr)
       ELSE PyObject([v.f EXCEPT
                        !["result.logs"] = mergeLogs(v.f["result.logs"], stderr)])
  ELSE IF v.t = "num" THEN parseFailure(TypeErrorAssign, stdout, stderr)
  ELSE PyObject([v.f EXCEPT !["logs"] = mergeLogs(v.f["logs"], stderr)])

(***************************************************************************)
(* Message Normalizer: buildMessagesFromPython (vlmAgent.ts 171-256)       *)
(***************************************************************************)
NoAttachments == <<>>

Message(variant, content, htmlPath, htmlWebPath, attachments) ==
  [role |-> "assistant", variant |-> variant, content |-> content,
   htmlPath |-> htmlPath, htmlWebPath |-> htmlWebPath,
   attachments |-> attachments]

PlainMessage(variant, content) ==
  Message(variant, content, Undefined, Undefined, NoAttachments)

\* reasoningSteps (182-186): the array, the lines of a non-empty string,
\* or undefined
reasoningSteps(steps) ==
  IF steps.t = "arr" THEN [defined |-> TRUE, items |-> steps.a]
  ELSE IF steps.t = "str" /\ Len(steps.s) > 0
  THEN [defined |-> TRUE, items |-> split(steps.s)]
  ELSE [defined |-> FALSE, items |-> <<>>]

planMessage(f) ==
  IF Truthy(f["result.plan"])
  THEN << PlainMessage("accent",
                       trim(<<PlanPrefix, "\n">> \o f["result.plan"].s)) >>
  ELSE <<>>

stepsMessage(f) ==
  LET rs == reasoningSteps(f["result.reasoning_steps"]) IN
  IF rs.defined /\ Len(rs.items) > 0
  THEN << PlainMessage("subtle",
                       <<StepsPrefix, "\n">> \o join(rs.items, <<"\n">>)) >>
  ELSE <<>>

\* variant: the snippet carried as the worker wrote it
codeMessageUntrimmed(f) ==
  IF Truthy(f["result.code"])
  THEN << Message("accent",
                  <<CodePrefix, "\n">> \o f["result.code"].s,
                  AsText(f["result.final_html_path"]),
                  AsText(f["result.final_html_web_path"]),
                  NoAttachments) >>
  ELSE <<>>

codeMessage(f) ==
  IF Truthy(f["result.code"])
  THEN << Message("accent",
                  <<CodePrefix, "\n">> \o trim(f["result.code"].s),
                  AsText(f["result.final_html_path"]),
                  AsText(f["result.final_html_web_path"]),
                  NoAttachments) >>
  ELSE <<>>

previewMessage(f) ==
  IF ~Nullish(f["result.preview_image"])
     /\ Truthy(f["result.preview_image.dataUrl"])
  THEN << Message("accent", <<PreviewContent>>, Undefined, Undefined,
                  << [name |-> IF Nullish(f["result.preview_image.name"])
                               THEN DefaultPreviewName
                               ELSE f["result.preview_image.name"].s,
                      type |-> "image",
                      previewUrl |-> f["result.preview_image.dataUrl"].s,
                      size |-> AsText(f["result.preview_image.size"])] >>) >>
  ELSE <<>>

feedbackMessage(f) ==
  LET feedback == IF Nullish(f["result.feedback"]) THEN JStr(<<>>)
                  ELSE f["result.feedback"]
  IN IF Truthy(feedback)
     THEN << PlainMessage("subtle", <<FeedbackPrefix>> \o feedback.s) >>
     ELSE <<>>

errorNoteMessage(f) ==
  LET errorNote == IF Nullish(f["result.error"]) THEN JStr(<<>>)
                   ELSE f["result.error"]
  IN IF Truthy(errorNote)
     THEN << PlainMessage("subtle", <<ErrorNotePrefix>> \o errorNote.s) >>
     ELSE <<>>

\* variant: no catch-all message
catchAllNever(messages) == messages

catchAll(messages) ==
  IF Len(messages) = 0
  THEN << PlainMessage("subtle", <<CatchAllContent>>) >>
  ELSE messages

\* variant: feedback emitted before the code
buildMessagesFeedbackFirst(f) ==
  catchAll(planMessage(f) \o stepsMessage(f) \o feedbackMessage(f)
           \o codeMessage(f) \o previewMessage(f) \o errorNoteMessage(f))

buildMessagesFromPython(f) ==
  catchAll(planMessage(f) \o stepsMessage(f) \o codeMessage(f)
           \o previewMessage(f) \o feedbackMessage(f) \o errorNoteMessage(f))

(***************************************************************************)
(* Fallback Policy output: fallbackMessages (vlmAgent.ts 258-307)          *)
(***************************************************************************)
FallbackIntro == "I received your request:"
FallbackPlan ==
  "Here's a high-level plan:\n1. Break down the UI into key regions.\n2. Translate those into layout primitives.\n3. Map typography and colors from the input."
FallbackSteps ==
  "- Analyze the primary call-to-action and hero layout.\n- Select component primitives (cards, list rows, nav bars).\n- Produce semantic HTML or React code with Tailwind annotations."
templateCode ==
  "from PIL import Image, ImageDraw\n\n# Mocked fallback pipeline\nimg = Image.new('RGB', (800, 600), 'white')\ndraw = ImageDraw.Draw(img)\ndraw.text((40, 40), 'Image2Code fallback render', fill='black')\nimg.save('fallback-output.png')"
FallbackFeedback ==
  "This is a mocked response path because the Python agent was unavailable. Swap in real model integration when the service is online."

AgentRunResult(messages, kind, text, detail, usedFallback, path, webPath) ==
  [settled |-> "fulfilled",
   messages |-> messages,
   status |-> [kind |-> kind, text |-> text, detail |-> detail],
   usedFallback |-> usedFallback,
   finalHtmlPath |-> path,
   finalHtmlWebPath |-> webPath]

\* runVlmAgent has not settled yet
NotSettled ==
  [AgentRunResult(<<>>, "none", "", Undefined, FALSE, Undefined, Undefined)
     EXCEPT !.settled = "pending"]

\* runVlmAgent threw (its promise is rejected)
Rejected ==
  [AgentRunResult(<<>>, "none", "", Undefined, FALSE, Undefined, Undefined)
     EXCEPT !.settled = "rejected"]

\* variant: the canned conversation without the caller's prompt
fallbackMessagesNoPrompt(prompt) ==
  AgentRunResult(
    << PlainMessage("accent", <<FallbackIntro, "\n", FallbackPlan>>),
       PlainMessage("subtle", <<StepsPrefix, "\n", FallbackSteps>>),
       PlainMessage("accent", <<CodePrefix, "\n", templateCode>>),
       PlainMessage("subtle", <<FeedbackPrefix, FallbackFeedback>>) >>,
    "error", FallbackStatusText, Undefined, TRUE, Undefined, Undefined)

\* variant: the canned conversation reported as a success
fallbackMessagesAsSuccess(prompt) ==
  AgentRunResult(
    << PlainMessage("accent",
                    <<FallbackIntro, "\n", "\"">> \o prompt
                      \o <<"\"", "\n\n", FallbackPlan>>),
       PlainMessage("subtle", <<StepsPrefix, "\n", FallbackSteps>>),
       PlainMessage("accent", <<CodePrefix, "\n", templateCode>>),
       PlainMessage("subtle", <<FeedbackPrefix, FallbackFeedback>>) >>,
    "success", FallbackStatusText, Undefined, TRUE, Undefined, Undefined)

fallbackMessages(prompt) ==
  AgentRunResult(
    << PlainMessage("accent",
                    <<FallbackIntro, "\n", "\"">> \o prompt
                      \o <<"\"", "\n\n", FallbackPlan>>),
       PlainMessage("subtle", <<StepsPrefix, "\n", FallbackSteps>>),
       PlainMessage("accent", <<CodePrefix, "\n", templateCode>>),
       PlainMessage("subtle", <<FeedbackPrefix, FallbackFeedback>>) >>,
    "error", FallbackStatusText, Undefined, TRUE, Undefined, Undefined)

(***************************************************************************)
(* runVlmAgent after the await (vlmAgent.ts 312-340)                       *)
(***************************************************************************)
\* variant: the reason left out of the status
hardFailureNoDetail(errorMessage) ==
  AgentRunResult(<<>>, "error", HardStatusText, Undefined, FALSE,
                 Undefined, Undefined)

\* variant: the reason also put in the conversation
hardFailureWithMessage(errorMessage) ==
  AgentRunResult(<< PlainMessage("subtle", errorMessage) >>, "error",
                 HardStatusText, errorMessage, FALSE, Undefined, Undefined)

hardFailure(errorMessage) ==
  AgentRunResult(<<>>, "error", HardStatusText, errorMessage, FALSE,
                 Undefined, Undefined)

successResult(f) ==
  AgentRunResult(buildMessagesFromPython(f), "success", SuccessStatusText,
                 IF Nullish(f["logs"]) THEN AsText(f["result.logs"])
                 ELSE AsText(f["logs"]),
                 FALSE,
                 AsText(f["result.final_html_path"]),
                 AsText(f["result.final_html_web_path"]))

\* the AgentRunResult for the value runPythonProcess resolved with; reading
\* a property of null or undefined, or calling toLowerCase on a value that
\* is not a string, throws a TypeError out of runVlmAgent
runVlmAgentResult(pythonResult, prompt) ==
  IF pythonResult.t = "null" THEN Rejected
  ELSE IF ~Truthy(pythonResult.f["success"])
  THEN LET error == pythonResult.f["error"]
           errorMessage == IF Nullish(error) THEN NoReasonMessage ELSE error.s
       IN IF ~Nullish(error) /\ error.t # "str" THEN Rejected
          ELSE IF shouldUseFallback(errorMessage)
          THEN fallbackMessages(prompt)
          ELSE hardFailure(errorMessage)
  ELSE IF Nullish(pythonResult.f["result"]) THEN Rejected
  ELSE successResult(pythonResult.f)

(***************************************************************************)
(* Inputs of one invocation                                                *)
(***************************************************************************)
\* largest number of data chunks the diagnostic output arrives in
MaxStderrChunks == 1

Prompts == { <<"Build a login form">>, <<"x", " ", "T", "i", "m", "e", "d">> }

\* what spawn throws or the 'error' event carries: an Error with a message,
\* or a value that is not an Error
ErrorValue(message) == [isError |-> TRUE, message |-> message]
NotAnError == [isError |-> FALSE, message |-> <<>>]
ErrorValues ==
  { ErrorValue(<<"s","p","a","w","n"," ","E","N","O","E","N","T">>),
    ErrorValue(<<>>),
    NotAnError }

\* error instanceof Error ? error.message : fallbackText
messageOf(error, fallbackText) ==
  IF error.isError THEN error.message ELSE fallbackText

Doc(members) == <<"{">> \o members \o <<"}">>

\* the primary output a worker may intend to write
StdoutDocs ==
  { <<>>,
    <<"Traceback (most recent call last):">>,
    <<"null">>,
    <<"5">>,
    Doc(<<>>),
    Doc(<<"success:true">>),
    Doc(<<"success:true", "result:{}">>),
    Doc(<<"success:true", "result:{}", "code:c", "html:H", "web:W">>),
    Doc(<<"success:true", "result:{}", "code:c">>),
    Doc(<<"success:true", "result:{}", "plan:P", "result.logs:L">>),
    Doc(<<"success:true", "result:{}", "feedback:F", "logs:T">>),
    Doc(<<"success:true", "result:{}", "plan:", "steps:[]", "feedback:",
          "note:null">>),
    Doc(<<"success:true", "result:{}", "note:E", "steps:[a,b]",
          "preview:{}", "preview.dataUrl:D", "preview.name:N">>),
    Doc(<<"success:false", "error:bad input">>),
    Doc(<<"success:false", "error:bad input", "logs:T">>),
    Doc(<<"success:false", "error:Request Timed Out">>),
    Doc(<<"success:false", "error:">>),
    Doc(<<"success:false", "error:5">>),
    Doc(<<"success:false">>) }

(***************************************************************************)
(* Payloads for the Message Normalizer taken on its own: every field of    *)
(* the result object absent, empty or filled, the members of the object    *)
(* written in one of several orders                                        *)
(***************************************************************************)
Fields == <<"plan", "steps", "code", "preview", "feedback", "note">>

\* the ways a field can appear in the payload, and the member tokens of each
FieldForms ==
  [plan |-> {"absent", "empty", "filled"},
   steps |-> {"absent", "empty", "filled", "emptyArray", "filledArray"},
   code |-> {"absent", "empty", "filled"},
   preview |-> {"absent", "empty", "nameOnly", "filled"},
   feedback |-> {"absent", "empty", "filled"},
   note |-> {"absent", "empty", "null", "filled"}]

FieldTokens ==
  [plan |-> [absent |-> <<>>, empty |-> <<"plan:">>, filled |-> <<"plan:P">>],
   steps |-> [absent |-> <<>>, empty |-> <<"steps:">>,
              filled |-> <<"steps:a\\nb">>, emptyArray |-> <<"steps:[]">>,
              filledArray |-> <<"steps:[a,b]">>],
   code |-> [absent |-> <<>>, empty |-> <<"code:">>, filled |-> <<"code:c">>],
   preview |-> [absent |-> <<>>,
                empty |-> <<"preview:{}", "preview.dataUrl:">>,
                nameOnly |-> <<"preview:{}", "preview.name:N">>,
                filled |-> <<"preview:{}", "preview.dataUrl:D">>],
   feedback |-> [absent |-> <<>>, empty |-> <<"feedback:">>,
                 filled |-> <<"feedback:F">>],
   note |-> [absent |-> <<>>, empty |-> <<"note:">>, null |-> <<"note:null">>,
             filled |-> <<"note:E">>]]

FieldNames == {Fields[i] : i \in 1..Len(Fields)}

Payloads == {p \in [FieldNames -> {"absent", "empty", "null", "filled",
                                   "emptyArray", "filledArray",
                                   "nameOnly"}] :
               \A n \in FieldNames : p[n] \in FieldForms[n]}

\* orders in which the serializer may write the six members
MemberOrders == { <<1, 2, 3, 4, 5, 6>>, <<6, 5, 4, 3, 2, 1>>,
                  <<3, 1, 5, 2, 6, 4>> }

\* the JSON text of a success envelope whose result carries payload p, its
\* members written in the given order
RECURSIVE payloadMembers(_, _, _)
payloadMembers(p, order, i) ==
  IF i > Len(order) THEN <<>>
  ELSE FieldTokens[Fields[order[i]]][p[Fields[order[i]]]]
         \o payloadMembers(p, order, i + 1)

payloadText(p, order) ==
  Doc(<<"success:true", "result:{}">> \o payloadMembers(p, order, 1))

NormIdle ==
  [phase |-> "idle", payload |-> [n \in FieldNames |-> "absent"],
   order |-> <<1, 2, 3, 4, 5, 6>>, messages |-> <<>>]

\* the diagnostic output a worker may intend to write
StderrTexts == { <<>>, <<"w", "a", "r", "n">> }

\* how the start of the worker goes: spawn throws, the process never starts
\* and the failure is reported by an 'error' event, or the process runs
SpawnOutcomes == {"throws", "failed", "running"}

\* no request is being handled by the /api/vlm action
ActIdle == [pc |-> "none"]

\* no pair of invocations is under way
CallsIdle == <<>>

\* no page of the client is open
\* the server process outside the environment and clock models
HostIdle ==
  [ pc |-> "none", startupEnv |-> <<>>, env |-> <<>>, launched |-> <<>>,
    nowMs |-> 0, run |-> "none", timer |-> "unset" ]

\* the Welcome screen outside the conversation model
ChatIdle ==
  [ pc |-> "none", onboardingRequested |-> FALSE, effectRuns |-> 0,
    introCalls |-> 0, intro |-> "none", isBootstrappingAssistant |-> TRUE,
    chatMessages |-> <<>>, promptValue |-> <<>>, selectedFiles |-> 0,
    isSending |-> FALSE, status |-> "null", submit |-> "idle", ok |-> FALSE,
    abortTimer |-> "unset", abortDelayMs |-> 0, requests |-> 0,
    last |-> "mount" ]

\* no output channel has failed and the server process is up
BrokenNone == [stdout |-> FALSE, stderr |-> FALSE, down |-> FALSE]

UiIdle ==
  [ pc |-> "none", user |-> "none", loading |-> TRUE, location |-> "", from |-> "",
    view |-> "none", to |-> "", toFrom |-> "", entry |-> "", trail |-> <<>>,
    leg |-> <<>>,
    authChanges |-> 0, sawNoUser |-> FALSE,
    activeTab |-> "chat", renderedComponents |-> 0, last |-> "none",
    panel |-> "none", pressed |-> {} ]

(***************************************************************************)
(* State of one invocation of runVlmAgent                                  *)
(***************************************************************************)
VARIABLES
  phase,         \* "idle" before the call, "called" after it
  prompt,        \* the prompt argument
  worker,        \* "none", or the SpawnOutcome of this invocation
  workerOut,     \* primary output the worker intends to write
  workerErr,     \* diagnostic output the worker intends to write
  outPos,        \* tokens of workerOut written so far
  errPos,        \* fragments of workerErr written so far
  spawnCount,    \* calls of spawn
  resolved,      \* the flag `resolved` of runPythonProcess
  timer,         \* deadline timer: "unset", "armed", "fired", "cleared"
  killed,        \* subprocess.kill() has been called
  stdoutChunks,  \* chunks collected by collectStream(subprocess.stdout)
  stderrChunks,  \* chunks collected by collectStream(subprocess.stderr)
  ended,         \* which streams have emitted 'end'
  errorEmitted,  \* the process has emitted 'error'
  stdin,         \* "unused", "writing", "ended"
  pythonResult,  \* value runPythonProcess resolved with, or Pending
  resolvedBy,    \* the event that called resolveResult first, or "none"
  agentResult,   \* what runVlmAgent returned, Rejected, or NotSettled
  norm,          \* a payload handed to the Message Normalizer on its own
  exited,        \* the worker process has terminated
  act,           \* one request handled by the /api/vlm action
  calls,         \* two invocations of runVlmAgent in flight together
  ui,            \* the client: auth state, location, and what is rendered
  broken,        \* output channels that failed with a read error
  host,          \* the server process: environment, launches, and a clocked run
  chat           \* the Welcome screen's conversation: onboarding and submissions

vars ==
  <<phase, prompt, worker, workerOut, workerErr, outPos, errPos, spawnCount,
    resolved, timer, killed, stdoutChunks, stderrChunks, ended, errorEmitted,
    stdin, pythonResult, resolvedBy, agentResult, norm, exited, act, calls, ui,
    broken, host, chat>>

\* nothing of an invocation has happened yet
NotCalled ==
  /\ phase = "idle"
  /\ worker = "none"
  /\ workerOut = <<>>
  /\ workerErr = <<>>
  /\ outPos = 0
  /\ errPos = 0
  /\ spawnCount = 0
  /\ resolved = FALSE
  /\ timer = "unset"
  /\ killed = FALSE
  /\ stdoutChunks = <<>>
  /\ stderrChunks = <<>>
  /\ ended = [stdout |-> FALSE, stderr |-> FALSE]
  /\ errorEmitted = FALSE
  /\ stdin = "unused"
  /\ pythonResult = Pending
  /\ resolvedBy = "none"
  /\ agentResult = NotSettled
  /\ exited = FALSE
  /\ broken = BrokenNone

\* the state before runVlmAgent is called
Idle ==
  /\ NotCalled
  /\ prompt \in Prompts
  /\ act = ActIdle
  /\ calls = CallsIdle
  /\ ui = UiIdle
  /\ host = HostIdle
  /\ chat = ChatIdle

Init ==
  /\ Idle
  /\ norm = NormIdle

\* the worker process terminates: on its own, or on the signal sent by
\* subprocess.kill(); runPythonProcess attaches no 'exit' or 'close' listener
\* (105-167), so no state of the invocation changes
WorkerExit ==
  /\ worker = "running"
  /\ ~exited
  /\ exited' = TRUE
  /\ UNCHANGED <<phase, prompt, worker, workerOut, workerErr, outPos, errPos,
                 spawnCount, resolved, timer, killed, stdoutChunks,
                 stderrChunks, ended, errorEmitted, stdin, pythonResult,
                 resolvedBy, agentResult, norm, act,
                 calls, ui, broken, host, chat>>

\* resolveResult(value) followed by the continuation of runVlmAgent's await
Resolve(value, by) ==
  /\ pythonResult' = value
  /\ resolvedBy' = by
  /\ agentResult' = runVlmAgentResult(value, prompt)

\* runVlmAgent -> runPythonProcess: spawn throws (99-103)
CallSpawnThrows ==
  /\ phase = "idle"
  /\ \E error \in ErrorValues :
       Resolve(PythonAgentError(
                 FailedToStartPrefix \o messageOf(error, UnknownSpawnError),
                 Undefined), "spawn")
  /\ phase' = "called"
  /\ worker' = "throws"
  /\ spawnCount' = spawnCount + 1
  /\ UNCHANGED <<prompt, workerOut, workerErr, outPos, errPos, resolved,
                 timer, killed, stdoutChunks, stderrChunks, ended,
                 errorEmitted, stdin>>
  /\ UNCHANGED <<norm, exited, act, calls, ui, broken, host, chat>>

\* variant: stdin is ended right after the write is issued, without waiting
\* for the write callback
CallSpawnedEndsEarly ==
  /\ phase = "idle"
  /\ phase' = "called"
  /\ \E outcome \in {"failed", "running"} :
       /\ worker' = outcome
       /\ IF outcome = "running"
          THEN /\ workerOut' \in StdoutDocs
               /\ workerErr' \in StderrTexts
          ELSE /\ workerOut' = <<>>
               /\ workerErr' = <<>>
  /\ spawnCount' = spawnCount + 1
  /\ timer' = "armed"
  /\ stdin' = "ended"
  /\ UNCHANGED <<prompt, outPos, errPos, resolved, killed, stdoutChunks,
                 stderrChunks, ended, errorEmitted, pythonResult, resolvedBy,
                 agentResult>>
  /\ UNCHANGED <<norm, exited, act, calls, ui, broken, host, chat>>

\* runVlmAgent -> runPythonProcess: spawn returns a ChildProcess; the timer
\* is armed, the drains and the 'error' listener are attached and the write
\* of the request is issued (94-98, 105-167)
CallSpawned ==
  /\ phase = "idle"
  /\ phase' = "called"
  /\ \E outcome \in {"failed", "running"} :
       /\ worker' = outcome
       /\ IF outcome = "running"
          THEN /\ workerOut' \in StdoutDocs
               /\ workerErr' \in StderrTexts
          ELSE /\ workerOut' = <<>>
               /\ workerErr' = <<>>
  /\ spawnCount' = spawnCount + 1
  /\ timer' = "armed"
  /\ stdin' = "writing"
  /\ UNCHANGED <<prompt, outPos, errPos, resolved, killed, stdoutChunks,
                 stderrChunks, ended, errorEmitted, pythonResult, resolvedBy,
                 agentResult>>
  /\ UNCHANGED <<norm, exited, act, calls, ui, broken, host, chat>>

\* the worker writes n more tokens of its primary output; the 'data'
\* listener of collectStream pushes the chunk (76)
StdoutData ==
  /\ worker = "running"
  /\ ~ended.stdout /\ ~broken.stdout
  /\ Len(stdoutChunks) < MaxStdoutChunks
  /\ \E n \in {1, Len(workerOut) - outPos} :
       /\ n >= 1
       /\ outPos + n <= Len(workerOut)
       /\ stdoutChunks' =
            Append(stdoutChunks, SubSeq(workerOut, outPos + 1, outPos + n))
       /\ outPos' = outPos + n
  /\ UNCHANGED <<phase, prompt, worker, workerOut, workerErr, errPos,
                 spawnCount, resolved, timer, killed, stderrChunks, ended,
                 errorEmitted, stdin, pythonResult, resolvedBy,
                 agentResult>>
  /\ UNCHANGED <<norm, exited, act, calls, ui, broken, host, chat>>

\* the same for the diagnostic output
StderrData ==
  /\ worker = "running"
  /\ ~ended.stderr /\ ~broken.stderr
  /\ Len(stderrChunks) < MaxStderrChunks
  /\ \E n \in {1, Len(workerErr) - errPos} :
       /\ n >= 1
       /\ errPos + n <= Len(workerErr)
       /\ stderrChunks' =
            Append(stderrChunks, SubSeq(workerErr, errPos + 1, errPos + n))
       /\ errPos' = errPos + n
  /\ UNCHANGED <<phase, prompt, worker, workerOut, workerErr, outPos,
                 spawnCount, resolved, timer, killed, stdoutChunks, ended,
                 errorEmitted, stdin, pythonResult, resolvedBy,
                 agentResult>>
  /\ UNCHANGED <<norm, exited, act, calls, ui, broken, host, chat>>

\* variant: the first drain to finish classifies what has arrived
StreamEndFirstWins(ch) ==
  /\ worker \in {"failed", "running"}
  /\ ~ended[ch] /\ ~broken[ch]
  /\ ended' = [ended EXCEPT ![ch] = TRUE]
  /\ IF ~resolved
     THEN /\ resolved' = TRUE
          /\ timer' = "cleared"
          /\ Resolve(classify(concat(stdoutChunks), concat(stderrChunks)),
                  "streams")
     ELSE UNCHANGED <<resolved, timer, pythonResult, resolvedBy,
                      agentResult>>
  /\ UNCHANGED <<phase, prompt, worker, workerOut, workerErr, outPos, errPos,
                 spawnCount, killed, stdoutChunks, stderrChunks,
                 errorEmitted, stdin>>
  /\ UNCHANGED <<norm, exited, act, calls, ui, broken, host, chat>>

\* a stream emits 'end': its drain resolves (77); when that was the second
\* drain, the callback of Promise.all runs before any other event (117-146)
\* variant: the callback of Promise.all does not look at `resolved`
StreamEndUnguarded(ch) ==
  /\ worker \in {"failed", "running"}
  /\ ~ended[ch] /\ ~broken[ch]
  /\ ended' = [ended EXCEPT ![ch] = TRUE]
  /\ IF ended'.stdout /\ ended'.stderr
     THEN /\ resolved' = TRUE
          /\ timer' = IF timer = "armed" THEN "cleared" ELSE timer
          /\ Resolve(classify(concat(stdoutChunks), concat(stderrChunks)),
                  "streams")
     ELSE UNCHANGED <<resolved, timer, pythonResult, resolvedBy,
                      agentResult>>
  /\ UNCHANGED <<phase, prompt, worker, workerOut, workerErr, outPos, errPos,
                 spawnCount, killed, stdoutChunks, stderrChunks,
                 errorEmitted, stdin>>
  /\ UNCHANGED <<norm, exited, act, calls, ui, broken, host, chat>>

StreamEnd(ch) ==
  /\ worker \in {"failed", "running"}
  /\ ~ended[ch] /\ ~broken[ch]
  /\ ended' = [ended EXCEPT ![ch] = TRUE]
  /\ IF ended'.stdout /\ ended'.stderr /\ ~resolved
     THEN /\ resolved' = TRUE
          /\ timer' = "cleared"
          /\ Resolve(classify(concat(stdoutChunks), concat(stderrChunks)),
                  "streams")
     ELSE UNCHANGED <<resolved, timer, pythonResult, resolvedBy,
                      agentResult>>
  /\ UNCHANGED <<phase, prompt, worker, workerOut, workerErr, outPos, errPos,
                 spawnCount, killed, stdoutChunks, stderrChunks,
                 errorEmitted, stdin>>
  /\ UNCHANGED <<norm, exited, act, calls, ui, broken, host, chat>>

StdoutEnd == StreamEnd("stdout")
StderrEnd == StreamEnd("stderr")

\* variant: the timer callback kills the process and resolves nothing
DeadlineFiresKillOnly ==
  /\ timer = "armed"
  /\ timer' = "fired"
  /\ killed' = TRUE
  /\ UNCHANGED <<phase, prompt, worker, workerOut, workerErr, outPos, errPos,
                 spawnCount, resolved, stdoutChunks, stderrChunks, ended,
                 errorEmitted, stdin, pythonResult, resolvedBy, agentResult,
                 norm, exited, act,
                 calls, ui, broken, host, chat>>

\* variant: the timer cannot be cancelled and its callback does not look at
\* `resolved`
DeadlineFiresUnguarded ==
  /\ timer \in {"armed", "cleared"}
  /\ timer' = "fired"
  /\ killed' = TRUE
  /\ IF resolved
     THEN UNCHANGED <<resolved, pythonResult, resolvedBy, agentResult>>
     ELSE /\ resolved' = TRUE
          /\ Resolve(PythonAgentError(TimedOutMessage, Undefined),
                     "deadline")
  /\ UNCHANGED <<phase, prompt, worker, workerOut, workerErr, outPos, errPos,
                 spawnCount, stdoutChunks, stderrChunks, ended,
                 errorEmitted, stdin>>
  /\ UNCHANGED <<norm, exited, act, calls, ui, broken, host, chat>>

\* the deadline timer fires (105-112)
DeadlineFires ==
  /\ timer = "armed"
  /\ timer' = "fired"
  /\ IF resolved
     THEN UNCHANGED <<resolved, killed, pythonResult, resolvedBy,
                      agentResult>>
     ELSE /\ resolved' = TRUE
          /\ killed' = TRUE
          /\ Resolve(PythonAgentError(TimedOutMessage, Undefined),
                     "deadline")
  /\ UNCHANGED <<phase, prompt, worker, workerOut, workerErr, outPos, errPos,
                 spawnCount, stdoutChunks, stderrChunks, ended,
                 errorEmitted, stdin>>
  /\ UNCHANGED <<norm, exited, act, calls, ui, broken, host, chat>>

\* variant: a failed start is answered by starting the worker again
ProcessErrorRespawns ==
  /\ worker \in {"failed", "running"}
  /\ ~errorEmitted
  /\ ~resolved
  /\ spawnCount' = spawnCount + 1
  /\ UNCHANGED <<phase, prompt, worker, workerOut, workerErr, outPos, errPos,
                 resolved, timer, killed, stdoutChunks, stderrChunks, ended,
                 errorEmitted, stdin, pythonResult, resolvedBy, agentResult>>
  /\ UNCHANGED <<norm, exited, act, calls, ui, broken, host, chat>>

\* the process emits 'error' (148-156)
ProcessError ==
  /\ worker \in {"failed", "running"}
  /\ ~errorEmitted
  /\ errorEmitted' = TRUE
  /\ IF resolved
     THEN UNCHANGED <<resolved, timer, pythonResult, resolvedBy,
                      agentResult>>
     ELSE /\ resolved' = TRUE
          /\ timer' = "cleared"
          /\ \E error \in ErrorValues :
               Resolve(PythonAgentError(
                         ProcessErrorPrefix
                           \o messageOf(error, UnknownProcessError),
                         Undefined), "error")
  /\ UNCHANGED <<phase, prompt, worker, workerOut, workerErr, outPos, errPos,
                 spawnCount, killed, stdoutChunks, stderrChunks, ended,
                 stdin>>
  /\ UNCHANGED <<norm, exited, act, calls, ui, broken, host, chat>>

\* the write of the request completes and its callback closes stdin (164-166)
StdinWritten ==
  /\ stdin = "writing"
  /\ stdin' = "ended"
  /\ UNCHANGED <<phase, prompt, worker, workerOut, workerErr, outPos, errPos,
                 spawnCount, resolved, timer, killed, stdoutChunks,
                 stderrChunks, ended, errorEmitted, pythonResult,
                 resolvedBy, agentResult>>
  /\ UNCHANGED <<norm, exited, act, calls, ui, broken, host, chat>>

Next ==
  \/ CallSpawnThrows
  \/ CallSpawned
  \/ StdoutData
  \/ StderrData
  \/ StdoutEnd
  \/ StderrEnd
  \/ DeadlineFires
  \/ ProcessError
  \/ StdinWritten
  \/ WorkerExit

Spec == Init /\ [][Next]_vars

(***************************************************************************)
(* The Message Normalizer applied to a parsed payload                      *)
(***************************************************************************)
NormInit ==
  /\ Idle
  /\ \E p \in Payloads, order \in MemberOrders :
       norm = [phase |-> "input", payload |-> p, order |-> order,
               messages |-> <<>>]

Normalize ==
  /\ norm.phase = "input"
  /\ norm' = [norm EXCEPT
                !.phase = "done",
                !.messages =
                   buildMessagesFromPython(
                     JSONparse(payloadText(norm.payload, norm.order)).value.f)]
  /\ UNCHANGED <<phase, prompt, worker, workerOut, workerErr, outPos, errPos,
                 spawnCount, resolved, timer, killed, stdoutChunks,
                 stderrChunks, ended, errorEmitted, stdin, pythonResult,
                 resolvedBy, agentResult, exited, act,
                 calls, ui, broken, host, chat>>

NormNext == Normalize

NormSpec == NormInit /\ [][NormNext]_vars

\* the invocation under the scheduling the event loop guarantees: an armed
\* timer that is not cleared fires
LiveSpec == Spec /\ WF_vars(DeadlineFires)

(***************************************************************************)
(* Properties                                                              *)
(***************************************************************************)
Settled == agentResult.settled # "pending"
Returned == agentResult.settled = "fulfilled"

\* the primary and the diagnostic output as collected so far
stdoutText == concat(stdoutChunks)
stderrText == concat(stderrChunks)

IsSoftFallback ==
  /\ Returned
  /\ agentResult.usedFallback
  /\ agentResult.status.kind = "error"
  /\ Len(agentResult.messages) = 4

\* C1: when the worker never starts (spawn throws, or the start failure
\* arrives as an 'error' event in any order relative to the two end-of-stream
\* events), runVlmAgent returns usedFallback = true and exactly 4 messages.
C1_NeverStartedFallsBack ==
  (worker \in {"throws", "failed"} /\ Settled) =>
     /\ Returned
     /\ agentResult.usedFallback
     /\ Len(agentResult.messages) = 4

C1_Witness ==
  /\ worker = "failed"
  /\ resolvedBy = "error"
  /\ ended.stdout /\ ~ended.stderr
  /\ agentResult.usedFallback

\* C2: once the deadline has fired on an unresolved invocation (the process
\* was killed), the result is the soft-failure fallback (usedFallback = true,
\* status.kind = "error", 4 messages) in every later state, whatever the
\* worker writes or closes afterwards.
C2_DeadlineGivesFallback == killed => IsSoftFallback

\* the deadline fired first and the worker then delivered a complete success
C2_Witness ==
  /\ killed
  /\ resolvedBy = "deadline"
  /\ ended.stdout /\ ended.stderr
  /\ JSONparse(stdoutText).ok
  /\ Truthy(JSONparse(stdoutText).value.f["success"])
  /\ IsSoftFallback

\* C3: every call of runVlmAgent eventually settles (runPythonProcess's
\* promise resolves and runVlmAgent returns or throws), whatever the worker
\* does, given that the armed deadline timer eventually fires.
C3_EveryCallSettles ==
  (phase = "called") ~> (pythonResult # Pending /\ Settled)

\* a worker that wrote nothing and closed neither stream, settled by the
\* deadline
C3_Witness ==
  /\ worker = "running"
  /\ stdoutChunks = <<>> /\ stderrChunks = <<>>
  /\ ~ended.stdout /\ ~ended.stderr /\ ~errorEmitted
  /\ stdin = "writing"
  /\ resolvedBy = "deadline"
  /\ Settled

\* C4 (as claimed): runVlmAgent always returns an AgentRunResult and never
\* throws or rejects, whatever the worker does and writes.
C4_NeverRejects == agentResult.settled # "rejected"

\* the outcome was fixed by the end of both streams and the primary output
\* parsed as text
ParsedOutput == JSONparse(stdoutText)

\* the worker itself declared a failure: well-formed output, success flag
\* false, an error string
WorkerDeclaredFailure ==
  /\ resolvedBy = "streams"
  /\ ParsedOutput.ok
  /\ ParsedOutput.value.t = "obj"
  /\ ParsedOutput.value.f["success"] = JBool(FALSE)
  /\ ParsedOutput.value.f["error"].t = "str"

DeclaredError == ParsedOutput.value.f["error"].s

HardFailureWith(reason) ==
  /\ Returned
  /\ ~agentResult.usedFallback
  /\ agentResult.messages = <<>>
  /\ agentResult.status.kind = "error"
  /\ agentResult.status.detail = reason

\* text contains phrase, letter case ignored
ContainsIgnoringCase(text, phrase) ==
  \E i \in 1..Len(text) :
     /\ i + Len(phrase) - 1 <= Len(text)
     /\ \A j \in 1..Len(phrase) :
          toLowerCase(<<text[i + j - 1]>>) = <<phrase[j]>>

SoftPhrases ==
  {NeedleFailedToStart, NeedleTimedOut, NeedleUnableToParse,
   NeedleProcessError}

MentionsSoftPhrase(text) ==
  \E phrase \in SoftPhrases : ContainsIgnoringCase(text, phrase)

\* C5 (as claimed): every failure the worker declares is classified hard for
\* every error text: no fallback, usedFallback = false, status.detail the
\* worker's error text unchanged.
C5_WorkerFailureAlwaysHard ==
  WorkerDeclaredFailure => HardFailureWith(DeclaredError)

\* C5 (amended): a failure the worker declares is classified hard, with
\* usedFallback = false, no messages and status.detail the worker's error
\* text unchanged, whenever that text contains none of the soft phrases
\* ("failed to start python process", "timed out", "unable to parse python
\* output", "python process error"), letter case ignored.
C5_WorkerFailureHardUnlessSoftPhrase ==
  (WorkerDeclaredFailure /\ ~MentionsSoftPhrase(DeclaredError)) =>
     HardFailureWith(DeclaredError)

C5_Witness ==
  /\ WorkerDeclaredFailure
  /\ DeclaredError = ErrBadInput
  /\ stderrText # <<>>
  /\ HardFailureWith(ErrBadInput)

\* the failure was raised by the orchestrator: the worker could not be
\* started, the deadline was exceeded, or the primary output did not parse
OrchestratorFailure ==
  \/ resolvedBy = "spawn"
  \/ resolvedBy = "error" /\ worker = "failed"
  \/ resolvedBy = "deadline"
  \/ resolvedBy = "streams" /\ ~ParsedOutput.ok

\* C6: every failure raised by the orchestrator itself (start failure,
\* deadline, unparsable primary output) is classified soft and replaced by
\* the canned fallback, whatever the underlying error message says.
C6_OrchestratorFailuresAreSoft ==
  OrchestratorFailure =>
     (IsSoftFallback /\ agentResult.status.text = FallbackStatusText)

C6_Witness ==
  /\ resolvedBy = "streams"
  /\ stdoutText # <<>>
  /\ ~ParsedOutput.ok
  /\ stderrText # <<>>
  /\ IsSoftFallback

\* valid JSON that is not a success/failure envelope
NotAnEnvelope(v) ==
  \/ v.t # "obj"
  \/ v.f["success"].t # "bool"
  \/ v.f["success"] = JBool(TRUE) /\ Nullish(v.f["result"])
  \/ v.f["success"] = JBool(FALSE) /\ v.f["error"].t # "str"

StartsWith(text, prefix) ==
  Len(text) >= Len(prefix) /\ SubSeq(text, 1, Len(prefix)) = prefix

\* C7 (as claimed): when both streams end and the primary output is not
\* valid JSON, or is valid JSON that is not a success/failure envelope, the
\* outcome is a Failure whose reason starts with the unable-to-parse text,
\* handled as a soft failure.
C7_UnexpectedOutputIsParseFailure ==
  (resolvedBy = "streams" /\ (~ParsedOutput.ok \/ NotAnEnvelope(ParsedOutput.value)))
    => /\ pythonResult.t = "obj"
       /\ pythonResult.f["error"].t = "str"
       /\ StartsWith(pythonResult.f["error"].s, UnableToParsePrefix)
       /\ IsSoftFallback

\* C8 (as claimed): whatever fixes the outcome, diagnostic text the worker
\* wrote before is contained in the returned status.detail.
C8_DiagnosticTextNeverLost ==
  [][ (agentResult.settled = "pending" /\ agentResult'.settled # "pending"
       /\ stderrText # <<>>)
      => /\ agentResult'.settled = "fulfilled"
         /\ agentResult'.status.detail # Undefined
         /\ includes(agentResult'.status.detail, stderrText) ]_vars

\* the field a normalized message was made for, by its fixed leading text
FieldVariant ==
  [plan |-> "accent", steps |-> "subtle", code |-> "accent",
   preview |-> "accent", feedback |-> "subtle", note |-> "subtle"]

FieldLead ==
  [plan |-> PlanPrefix, steps |-> StepsPrefix, code |-> CodePrefix,
   preview |-> PreviewContent, feedback |-> FeedbackPrefix,
   note |-> ErrorNotePrefix]

\* the fields of a payload that are present and non-empty, in the fixed order
FilledFields(p) ==
  SelectSeq(Fields, LAMBDA n : p[n] \in {"filled", "filledArray"})

IsCatchAll(m) == m.content = <<CatchAllContent>>

FieldMessages(messages) == SelectSeq(messages, LAMBDA m : ~IsCatchAll(m))

\* C9: for every success payload the normalizer emits one message per field
\* that is present and non-empty, and none for any other field, in the order
\* plan, steps, code, preview image, feedback, error note, with variants
\* accent, subtle, accent, accent, subtle, subtle, whatever the order of the
\* members in the payload.
C9_FixedOrderOneMessagePerField ==
  norm.phase = "done" =>
    LET fm == FieldMessages(norm.messages)
        ff == FilledFields(norm.payload)
    IN /\ Len(fm) = Len(ff)
       /\ \A i \in 1..Len(ff) :
            /\ fm[i].variant = FieldVariant[ff[i]]
            /\ fm[i].content[1] = FieldLead[ff[i]]

C9_Witness ==
  /\ norm.phase = "done"
  /\ norm.order = <<6, 5, 4, 3, 2, 1>>
  /\ \A n \in FieldNames : norm.payload[n] \in {"filled", "filledArray"}
  /\ Len(norm.messages) = 6

\* member tokens that give a field a non-empty value
FilledTokens ==
  {"plan:P", "steps:a\\nb", "steps:[a,b]", "code:c", "preview.dataUrl:D",
   "feedback:F", "note:E"}

NoFieldFilled(text) == \A i \in 1..Len(text) : text[i] \notin FilledTokens

HasCatchAll(messages) == \E i \in 1..Len(messages) : IsCatchAll(messages[i])

\* C10: every result with status.kind = "success" has at least one message;
\* the catch-all subtle message is there exactly when no field of the payload
\* produced a message, and is then the only message.
C10_SuccessHasMessages ==
  (Returned /\ agentResult.status.kind = "success") =>
     /\ Len(agentResult.messages) >= 1
     /\ HasCatchAll(agentResult.messages) <=> NoFieldFilled(stdoutText)
     /\ HasCatchAll(agentResult.messages) =>
          /\ Len(agentResult.messages) = 1
          /\ agentResult.messages[1].variant = "subtle"

C10_Witness ==
  /\ Returned
  /\ agentResult.status.kind = "success"
  /\ \E i \in 1..Len(stdoutText) : stdoutText[i] = "plan:"
  /\ Len(agentResult.messages) = 1
  /\ IsCatchAll(agentResult.messages[1])


(***************************************************************************)
(* The steps of a payload given as a sequence and as newline-joined text   *)
(***************************************************************************)
MaxSteps == 3

\* the step texts a worker may report, the empty text and a text holding a
\* line break among them
StepTexts == { <<>>, <<"a">>, <<"b">>, <<"a", "\n", "b">> }

StepSequences == UNION { [1..n -> StepTexts] : n \in 0..MaxSteps }

\* a success payload whose only field is reasoning_steps as the value v
stepsPayload(v) == [NoFields EXCEPT !["result.reasoning_steps"] = v]

\* the messages the normalizer emits for the steps
StepsMessages(messages) ==
  SelectSeq(messages, LAMBDA m : StartsWith(m.content, <<StepsPrefix>>))

StepsInit ==
  /\ Idle
  /\ \E steps \in StepSequences :
       norm = [phase |-> "input", steps |-> steps,
               fromSequence |-> <<>>, fromText |-> <<>>]

NormalizeSteps ==
  /\ norm.phase = "input"
  /\ norm' = [norm EXCEPT
                !.phase = "done",
                !.fromSequence =
                   buildMessagesFromPython(stepsPayload(JArr(norm.steps))),
                !.fromText =
                   buildMessagesFromPython(
                     stepsPayload(JStr(join(norm.steps, <<"\n">>))))]
  /\ UNCHANGED <<phase, prompt, worker, workerOut, workerErr, outPos, errPos,
                 spawnCount, resolved, timer, killed, stdoutChunks,
                 stderrChunks, ended, errorEmitted, stdin, pythonResult,
                 resolvedBy, agentResult, exited, act,
                 calls, ui, broken, host, chat>>

StepsNext == NormalizeSteps

StepsSpec == StepsInit /\ [][StepsNext]_vars

\* C11 (as claimed): for every sequence of step texts, normalizing the
\* sequence and normalizing its newline-joined text give the same steps
\* message: both none, or both one with identical content.
C11_StepsRoundTrip ==
  norm.phase = "done" =>
     StepsMessages(norm.fromSequence) = StepsMessages(norm.fromText)

\* the one-element sequence holding the empty text: the sequence gives a steps
\* message with no step, its joined text "" gives none
C11_EmptyStepDiverges ==
  /\ norm.phase = "done"
  /\ norm.steps = << <<>> >>
  /\ Len(StepsMessages(norm.fromSequence)) = 1
  /\ Len(StepsMessages(norm.fromText)) = 0


\* the primary output is a success payload in which code is the only field
\* of the result that is filled
OnlyCodePopulated(text) ==
  /\ Len(text) >= 5
  /\ text[2] = "success:true"
  /\ \E i \in 1..Len(text) : text[i] = "result:{}"
  /\ \E i \in 1..Len(text) : text[i] = "code:c"
  /\ \A i \in 1..Len(text) : text[i] \in FilledTokens => text[i] = "code:c"

\* body is code without the white space at its two ends
IsTrimOf(body, code) ==
  \E i \in 1..(Len(code) + 1), j \in 0..Len(code) :
     /\ body = SubSeq(code, i, j)
     /\ \A k \in 1..(i - 1) : code[k] \in WhiteSpace
     /\ \A k \in (j + 1)..Len(code) : code[k] \in WhiteSpace
     /\ body # <<>> =>
          body[1] \notin WhiteSpace /\ body[Len(body)] \notin WhiteSpace

\* C12: a success payload with only code populated gives exactly one message:
\* accent, its content the code with leading and trailing white space removed,
\* its htmlPath and htmlWebPath the final artifact paths of the payload
\* unchanged.
C12_OnlyCodeGivesOneAccentMessage ==
  (Returned /\ agentResult.status.kind = "success"
     /\ OnlyCodePopulated(stdoutText)) =>
     /\ Len(agentResult.messages) = 1
     /\ LET m == agentResult.messages[1]
            f == ParsedOutput.value.f
        IN /\ m.variant = "accent"
           /\ \E body \in {SubSeq(m.content, 3, Len(m.content))} :
                /\ m.content = <<CodePrefix, "\n">> \o body
                /\ IsTrimOf(body, CodeText)
           /\ m.htmlPath = AsText(f["result.final_html_path"])
           /\ m.htmlWebPath = AsText(f["result.final_html_web_path"])

C12_Witness ==
  /\ Returned
  /\ agentResult.status.kind = "success"
  /\ OnlyCodePopulated(stdoutText)
  /\ \E i \in 1..Len(stdoutText) : stdoutText[i] = "html:H"
  /\ Len(agentResult.messages) = 1
  /\ agentResult.messages[1].content = <<CodePrefix, "\n", "c">>
  /\ agentResult.messages[1].htmlPath = HtmlPath
  /\ agentResult.messages[1].htmlWebPath = HtmlWebPath


\* the run ended in a soft failure: the canned fallback was served, or the
\* failure is one the orchestrator raised itself
SoftFailure == Returned /\ (agentResult.usedFallback \/ OrchestratorFailure)

\* C13: every soft-failure result has one fixed shape: four messages with
\* variants accent, subtle, accent, subtle, the first starting with
\* "I received your request:" followed by the caller's prompt, status.kind
\* "error", the fallback status text, and usedFallback = true.
C13_SoftFailureShape ==
  SoftFailure =>
     /\ Len(agentResult.messages) = 4
     /\ [i \in 1..4 |-> agentResult.messages[i].variant]
          = <<"accent", "subtle", "accent", "subtle">>
     /\ StartsWith(agentResult.messages[1].content,
                   <<"I received your request:", "\n", "\"">> \o prompt)
     /\ agentResult.status.kind = "error"
     /\ agentResult.status.text
          = "Fallback pathway used because the Python VLM agent is unavailable."
     /\ agentResult.usedFallback

C13_Witness ==
  /\ SoftFailure
  /\ resolvedBy = "deadline"
  /\ prompt = <<"Build a login form">>
  /\ Len(agentResult.messages) = 4
  /\ StartsWith(agentResult.messages[1].content,
                <<FallbackIntro, "\n", "\"", "Build a login form", "\"">>)


\* the result is a hard failure: an error without the canned fallback
HardFailure ==
  Returned /\ agentResult.status.kind = "error" /\ ~agentResult.usedFallback

\* the reason of a failure the worker's output states: its error text, or the
\* default text when it gives none
FailureReason ==
  IF ParsedOutput.value.f["error"].t = "str"
  THEN ParsedOutput.value.f["error"].s
  ELSE <<"The VLM agent failed without providing a reason.">>

\* C14: every hard-failure result has an empty message list, status.kind
\* "error", usedFallback = false and status.detail equal to the failure
\* reason; no result combines status.kind "error" and usedFallback = false
\* with a non-empty message list.
C14_HardFailureShape ==
  HardFailure =>
     /\ agentResult.messages = <<>>
     /\ resolvedBy = "streams"
     /\ ParsedOutput.ok
     /\ agentResult.status.detail = FailureReason

C14_Witness ==
  /\ HardFailure
  /\ stdoutText = Doc(<<"success:false">>)
  /\ stderrText # <<>>
  /\ agentResult.messages = <<>>
  /\ agentResult.status.detail = NoReasonMessage


\* the worker process of this invocation was started and has not terminated
WorkerStillRunning == worker = "running" /\ ~exited

\* the invocation has returned on the timeout path
ReturnedOnTimeout == Returned /\ resolvedBy = "deadline"

\* C16 (as claimed): when the deadline fires before the invocation is
\* resolved, the kill is issued before the timeout failure is delivered, so
\* that no worker process of the invocation is still running once the
\* invocation has returned on the timeout path.
C16_NoWorkerRunsAfterTimeout ==
  ReturnedOnTimeout => (killed /\ ~WorkerStillRunning)

\* the part that holds: the kill was issued when the timeout is delivered
C16_KillIssuedBeforeDelivery ==
  ReturnedOnTimeout => killed

\* both drains have completed
DrainsComplete == ended.stdout /\ ended.stderr

\* C17 (as claimed): runVlmAgent returns to its caller only when both drains
\* have completed and the worker process has exited, or the deadline has
\* elapsed and the process has been killed; it never returns while the worker
\* is still running and un-killed.
C17_ReturnsOnlyAfterExitOrKill ==
  (Returned /\ worker = "running") =>
     \/ DrainsComplete /\ exited
     \/ timer = "fired" /\ killed

\* both channels closed by a worker that goes on running: the invocation has
\* returned, nothing was killed
C17_ReturnedWhileWorkerRuns ==
  /\ Returned
  /\ resolvedBy = "streams"
  /\ WorkerStillRunning
  /\ ~killed

\* one of the three events that can fix the outcome occurs in this step
DeadlineEvent == timer = "armed" /\ timer' = "fired"
StreamsEvent == ~DrainsComplete /\ ended'.stdout /\ ended'.stderr
ErrorEvent == ~errorEmitted /\ errorEmitted'

\* the failure an event other than the end of the streams resolves with
IsFailureStarting(value, prefix) ==
  /\ value.t = "obj"
  /\ value.f["success"] = JBool(FALSE)
  /\ value.f["error"].t = "str"
  /\ StartsWith(value.f["error"].s, prefix)

\* C18: each invocation produces exactly one outcome, fixed by the first of
\* the deadline timer firing, both output channels reaching end-of-stream and
\* a process 'error' event (a throwing spawn fixes it before any of them);
\* every later event is ignored, and once the deadline or a start failure has
\* fixed the outcome the primary output is never parsed.
C18_FirstEventFixesOutcome ==
  [][ /\ pythonResult # Pending =>
           UNCHANGED <<pythonResult, resolvedBy, agentResult, resolved>>
      /\ (pythonResult = Pending /\ DeadlineEvent) =>
           /\ resolvedBy' = "deadline"
           /\ pythonResult' = PythonAgentError(TimedOutMessage, Undefined)
      /\ (pythonResult = Pending /\ StreamsEvent) =>
           /\ resolvedBy' = "streams"
           /\ pythonResult' = classify(stdoutText, stderrText)
      /\ (pythonResult = Pending /\ ErrorEvent) =>
           /\ resolvedBy' = "error"
           /\ IsFailureStarting(pythonResult', ProcessErrorPrefix)
      /\ (pythonResult = Pending /\ pythonResult' # Pending) =>
           \/ DeadlineEvent
           \/ StreamsEvent
           \/ ErrorEvent
           \/ /\ phase = "idle"
              /\ worker' = "throws"
              /\ IsFailureStarting(pythonResult', FailedToStartPrefix)
      /\ resolvedBy' \in {"deadline", "spawn", "error"} =>
           pythonResult' # classify(stdoutText', stderrText')
    ]_vars

\* the deadline fixed the outcome, and afterwards both channels ended with a
\* well-formed success payload that was not parsed into the outcome
C18_Witness ==
  /\ resolvedBy = "deadline"
  /\ DrainsComplete
  /\ ParsedOutput.ok
  /\ ParsedOutput.value.f["success"] = JBool(TRUE)
  /\ pythonResult = PythonAgentError(TimedOutMessage, Undefined)
  /\ errorEmitted
  /\ Returned /\ agentResult.usedFallback


(***************************************************************************)
(* The /api/vlm action (api.vlm.ts 19-148): one request, from its arrival  *)
(* to the response                                                         *)
(***************************************************************************)
\* largest number of entries of the form field "images"
MaxFiles == 2

Methods == {"GET", "POST"}

\* the content-type header: absent, or its text
ContentTypeHeaders ==
  { Null, <<"application/json">>, <<"multipart/form-data", "; boundary=x">> }

\* formData.get("prompt"): null when the field is missing, or its text
PromptValues ==
  { Null, <<>>, <<" ", "\n">>, <<" ", "Build a login form", "\n">> }

\* formData.get("skipImageRequirement")
SkipValues == { Null, <<"true">> }

\* the File entries of the field "images"
UploadedFile(size, type) == [size |-> size, type |-> type]
ImageFile == UploadedFile(1, <<"image/", "png">>)
EmptyFile == UploadedFile(0, <<"application/", "octet-stream">>)
TextFile == UploadedFile(1, <<"text/", "plain">>)
UploadedFiles == {ImageFile, EmptyFile, TextFile}

FileLists == UNION { [1..n -> UploadedFiles] : n \in 0..MaxFiles }

\* a body request.formData() rejects
MalformedBody ==
  [wellFormed |-> FALSE, prompt |-> Null, skipImageRequirement |-> Null,
   images |-> <<>>]

Bodies ==
  {MalformedBody}
    \cup [wellFormed : {TRUE}, prompt : PromptValues,
          skipImageRequirement : SkipValues, images : FileLists]

Requests == [method : Methods, contentType : ContentTypeHeaders, body : Bodies]

\* a response: its HTTP status, the kind of body, and the body
Response(code, type, body) == [code |-> code, type |-> type, body |-> body]

\* the envelope of an error response: a status and nothing else
StatusOnly(kind, text, detail) ==
  [status |-> [kind |-> kind, text |-> text, detail |-> detail]]

NoResponse == Response(0, "none", StatusOnly("none", "", Undefined))

\* the action's promise rejects: formData() or mkdir threw outside the try
ActionRejects == Response(0, "rejects", StatusOnly("none", "", Undefined))

MethodNotAllowed ==
  Response(405, "text", StatusOnly("none", "Method Not Allowed", Undefined))

UnsupportedContentType ==
  Response(415, "json",
           StatusOnly("error", "Unsupported content type.",
                      <<"Send multipart/form-data with prompt and images.">>))

MissingPrompt ==
  Response(400, "json",
           StatusOnly("error",
                      "Add a prompt describing the UI you want generated.",
                      Undefined))

OnboardingTips ==
  "Here are a few quick steps to get the most out of Image2Code:"

OnboardingResponse ==
  Response(200, "json",
           [messages |-> << PlainMessage("accent", <<OnboardingTips>>) >>,
            status |-> [kind |-> "success", text |-> "Onboarding tips ready.",
                        detail |-> Undefined],
            usedFallback |-> TRUE])

MissingImages ==
  Response(400, "json",
           StatusOnly("error",
                      "Attach at least one wireframe image before running the agent.",
                      Undefined))

UnsupportedFileType(type) ==
  Response(400, "json",
           StatusOnly("error",
                      "Only image attachments are supported right now.",
                      <<"Unsupported file type: ">>
                        \o (IF type = <<>> THEN <<"unknown">> ELSE type)))

\* the message of whatever the try block caught
CaughtMessage == <<"error.message">>

ServerError ==
  Response(500, "json",
           StatusOnly("error", "Unable to run the VLM agent.", CaughtMessage))

\* Response.json(result)
AgentResponse(result) == Response(200, "json", result)

\* request.headers.get("content-type") ?? ""
contentTypeOf(request) ==
  IF request.contentType = Null THEN <<>> ELSE request.contentType

\* typeof promptValue === "string" ? promptValue.trim() : ""
promptOf(request) ==
  IF request.body.prompt = Null THEN <<>> ELSE trim(request.body.prompt)

\* formData.get("skipImageRequirement") === "true"
skipImageRequirementOf(request) ==
  request.body.skipImageRequirement = <<"true">>

\* the entries of "images" that are files with content
imageFilesOf(request) ==
  SelectSeq(request.body.images, LAMBDA file : file.size > 0)

isImage(file) == StartsWith(file.type, <<"image/">>)

\* imageFiles.find(file => !file.type.startsWith("image/"))
RECURSIVE findInvalid(_)
findInvalid(files) ==
  IF files = <<>> THEN <<>>
  ELSE IF ~isImage(Head(files)) THEN <<Head(files)>>
  ELSE findInvalid(Tail(files))

\* the request passed every check
Pass == Response(0, "pass", StatusOnly("none", "", Undefined))

\* variant: the type of the attachments is not looked at
validateAnyFileType(request) ==
  IF request.method # "POST" THEN MethodNotAllowed
  ELSE IF ~includes(contentTypeOf(request), <<"multipart/form-data">>)
  THEN UnsupportedContentType
  ELSE IF ~request.body.wellFormed THEN ActionRejects
  ELSE IF promptOf(request) = <<>> THEN MissingPrompt
  ELSE IF Len(imageFilesOf(request)) = 0 /\ skipImageRequirementOf(request)
  THEN OnboardingResponse
  ELSE IF Len(imageFilesOf(request)) = 0 /\ ~skipImageRequirementOf(request)
  THEN MissingImages
  ELSE Pass

\* the checks of the action before anything is staged (20-103): the response
\* the action returns at once, or Pass
validate(request) ==
  IF request.method # "POST" THEN MethodNotAllowed
  ELSE IF ~includes(contentTypeOf(request), <<"multipart/form-data">>)
  THEN UnsupportedContentType
  ELSE IF ~request.body.wellFormed THEN ActionRejects
  ELSE IF promptOf(request) = <<>> THEN MissingPrompt
  ELSE IF Len(imageFilesOf(request)) = 0 /\ skipImageRequirementOf(request)
  THEN OnboardingResponse
  ELSE IF Len(imageFilesOf(request)) = 0 /\ ~skipImageRequirementOf(request)
  THEN MissingImages
  ELSE IF findInvalid(imageFilesOf(request)) # <<>>
  THEN UnsupportedFileType(findInvalid(imageFilesOf(request))[1].type)
  ELSE Pass

\* the variables of the invocation of runVlmAgent other than its prompt
invocationVars ==
  <<phase, worker, workerOut, workerErr, outPos, errPos, spawnCount, resolved,
    timer, killed, stdoutChunks, stderrChunks, ended, errorEmitted, stdin,
    pythonResult, resolvedBy, agentResult, exited>>

\* the request has not arrived yet
ActionInit ==
  /\ NotCalled
  /\ prompt = <<>>
  /\ norm = NormIdle
  /\ act = ActIdle
  /\ calls = CallsIdle
  /\ ui = UiIdle
  /\ host = HostIdle
  /\ chat = ChatIdle

\* the set of the elements of a sequence
Range(seq) == { seq[i] : i \in 1..Len(seq) }

\* a request arrives and is validated (20-103)
Receive ==
  /\ act.pc = "none"
  /\ \E request \in Requests :
       act' = [pc |-> IF validate(request) = Pass THEN "mkdir" ELSE "done",
               request |-> request,
               prompt |-> promptOf(request),
               imageFiles |-> imageFilesOf(request),
               savedPaths |-> <<>>,
               disk |-> {},
               rmFailed |-> {},
               result |-> NoResponse,
               response |-> IF validate(request) = Pass THEN NoResponse
                            ELSE validate(request)]
  /\ UNCHANGED <<invocationVars, prompt, norm, calls, ui, broken, host, chat>>

\* mkdir(uploadDir, {recursive: true}), outside the try block (105-106)
Mkdir ==
  /\ act.pc = "mkdir"
  /\ \E outcome \in {"made", "throws"} :
       act' = IF outcome = "made"
              THEN [act EXCEPT !.pc = "staging"]
              ELSE [act EXCEPT !.pc = "done", !.response = ActionRejects]
  /\ UNCHANGED <<invocationVars, prompt, norm, calls, ui, broken, host, chat>>

\* one turn of the staging loop (110-117): the file is written under a fresh
\* path, named here by its position in imageFiles, and the path is pushed; or
\* arrayBuffer or writeFile throws and the catch block builds the 500
\* response (123-134). After the last file runVlmAgent is called (121-122).
StageFile ==
  /\ act.pc = "staging"
  /\ LET path == Len(act.savedPaths) + 1 IN
     \E outcome \in {"written", "throws"} :
       IF outcome = "written"
       THEN /\ act' = [act EXCEPT
                         !.savedPaths = Append(@, path),
                         !.disk = @ \cup {path},
                         !.pc = IF path = Len(act.imageFiles)
                                THEN "agent" ELSE "staging"]
            /\ prompt' = IF path = Len(act.imageFiles)
                         THEN act.prompt ELSE prompt
       ELSE /\ act' = [act EXCEPT !.pc = "finally", !.result = ServerError]
            /\ UNCHANGED prompt
  /\ UNCHANGED <<invocationVars, norm, calls, ui, broken, host, chat>>

\* a step of the invocation while the action awaits runVlmAgent
AgentStep ==
  /\ act.pc = "agent"
  /\ ~Settled
  /\ Next

\* runVlmAgent has settled (122-134): its result is kept, or the catch block
\* builds the 500 response
AgentSettled ==
  /\ act.pc = "agent"
  /\ Settled
  /\ act' = [act EXCEPT
               !.pc = "finally",
               !.result = IF Returned THEN AgentResponse(agentResult)
                          ELSE ServerError]
  /\ UNCHANGED <<invocationVars, prompt, norm, calls, ui, broken, host, chat>>

\* variant: the staged files are removed only after the agent has returned
CleanupAfterSuccess ==
  /\ act.pc = "finally"
  /\ \E failed \in SUBSET Range(act.savedPaths) :
       act' = [act EXCEPT
                 !.pc = "done",
                 !.rmFailed = IF act.result.code = 200 THEN failed ELSE {},
                 !.disk = IF act.result.code = 200 THEN @ \cap failed ELSE @,
                 !.response = act.result]
  /\ UNCHANGED <<invocationVars, prompt, norm, calls, ui, broken, host, chat>>

\* the finally block (135-145) and the return (147): rm is called on every
\* saved path and awaited, an rm that fails is ignored and leaves its file
Cleanup ==
  /\ act.pc = "finally"
  /\ \E failed \in SUBSET Range(act.savedPaths) :
       act' = [act EXCEPT
                 !.pc = "done",
                 !.rmFailed = failed,
                 !.disk = @ \cap failed,
                 !.response = act.result]
  /\ UNCHANGED <<invocationVars, prompt, norm, calls, ui, broken, host, chat>>

ActionNext ==
  \/ Receive
  \/ Mkdir
  \/ StageFile
  \/ AgentStep
  \/ AgentSettled
  \/ Cleanup

ActionSpec == ActionInit /\ [][ActionNext]_vars


\* the action has returned its response
Responded == act.pc = "done"

\* the envelope says the fallback was used
UsedFallback(body) == "usedFallback" \in DOMAIN body /\ body.usedFallback

\* status.kind and usedFallback of an envelope agree
KindTellsDegraded(body) ==
  /\ UsedFallback(body) => body.status.kind = "error"
  /\ body.status.kind = "success" => ~UsedFallback(body)

\* C15 (as claimed): in every response envelope produced for a run request,
\* by runVlmAgent and by the /api/vlm action, usedFallback = true occurs only
\* together with status.kind = "error", and status.kind = "success" only
\* together with usedFallback = false.
C15_KindAloneTellsDegraded ==
  /\ Returned => KindTellsDegraded(agentResult)
  /\ (Responded /\ act.response.type = "json") =>
        KindTellsDegraded(act.response.body)

\* the request asks for the onboarding tips: a POST multipart request with a
\* prompt, no file with content, and skipImageRequirement = "true"
OnboardingRequest(request) ==
  /\ request.method = "POST"
  /\ request.contentType # Null
  /\ \E i \in 1..Len(request.contentType) :
        request.contentType[i] = "multipart/form-data"
  /\ request.body.wellFormed
  /\ request.body.prompt # Null
  /\ \E i \in 1..Len(request.body.prompt) :
        request.body.prompt[i] \notin WhiteSpace
  /\ \A i \in 1..Len(request.body.images) : request.body.images[i].size = 0
  /\ request.body.skipImageRequirement = <<"true">>

\* C15 (amended): status.kind and usedFallback agree in every result of
\* runVlmAgent and in every response of the action except the onboarding
\* short-circuit, which runs no agent and answers status.kind = "success"
\* with usedFallback = true.
C15_KindTellsDegradedExceptOnboarding ==
  /\ Returned => KindTellsDegraded(agentResult)
  /\ (Responded /\ act.response.type = "json") =>
        IF OnboardingRequest(act.request)
        THEN /\ act.response.body.status.kind = "success"
             /\ act.response.body.usedFallback
             /\ spawnCount = 0
        ELSE KindTellsDegraded(act.response.body)

\* the action answers a run that fell back: usedFallback with kind "error"
C15_Witness ==
  /\ Responded
  /\ act.response.code = 200
  /\ resolvedBy = "deadline"
  /\ act.response.body.usedFallback
  /\ act.response.body.status.kind = "error"

ValidRunRequest(request) ==
  /\ request.method = "POST"
  /\ request.contentType # Null
  /\ \E i \in 1..Len(request.contentType) :
        request.contentType[i] = "multipart/form-data"
  /\ request.body.wellFormed
  /\ request.body.prompt # Null
  /\ \E i \in 1..Len(request.body.prompt) :
        request.body.prompt[i] \notin WhiteSpace
  /\ \E i \in 1..Len(request.body.images) : request.body.images[i].size > 0
  /\ \A i \in 1..Len(request.body.images) :
        request.body.images[i].size > 0 =>
           request.body.images[i].type[1] = "image/"

\* the response rejects the request, or is the onboarding short-circuit
RejectedOrOnboarding ==
  /\ Responded
  /\ \/ act.response.code \in {405, 415, 400}
     \/ OnboardingRequest(act.request)

\* C20: the action invokes runVlmAgent only for a POST multipart request whose
\* prompt is non-empty after trimming and that carries at least one non-empty
\* file, all of image type; every rejected request (405, 415, 400) and the
\* onboarding short-circuit return without staging a file and without
\* starting a worker.
C20_AgentOnlyForValidRequests ==
  /\ (phase = "called" \/ spawnCount > 0 \/ act.pc = "agent") =>
        /\ ValidRunRequest(act.request)
        /\ prompt = trim(act.request.body.prompt)
  /\ RejectedOrOnboarding =>
        /\ act.savedPaths = <<>>
        /\ act.disk = {}
        /\ spawnCount = 0
        /\ phase = "idle"

\* a request with an empty file entry before its image reaches the worker
C20_Witness ==
  /\ act.pc = "agent"
  /\ worker = "running"
  /\ spawnCount = 1
  /\ act.request.body.images = <<EmptyFile, ImageFile>>
  /\ prompt = <<"Build a login form">>


\* the log field of the variant the worker's output chose: result.logs of a
\* success, logs of a failure
LogKey ==
  IF Truthy(ParsedOutput.value.f["success"]) THEN "result.logs" ELSE "logs"

\* both streams ended with a well-formed envelope whose own log field holds
\* text, and the diagnostic channel holds text too
BothLogsPresent ==
  /\ resolvedBy = "streams"
  /\ ParsedOutput.ok
  /\ ParsedOutput.value.t = "obj"
  /\ Truthy(ParsedOutput.value.f["success"]) =>
        ~Nullish(ParsedOutput.value.f["result"])
  /\ ParsedOutput.value.f[LogKey].t = "str"
  /\ ParsedOutput.value.f[LogKey].s # <<>>
  /\ stderrText # <<>>

PayloadLog == ParsedOutput.value.f[LogKey].s
MergedLog == pythonResult.f[LogKey].s

EndsWith(text, suffix) ==
  /\ Len(text) >= Len(suffix)
  /\ SubSeq(text, Len(text) - Len(suffix) + 1, Len(text)) = suffix

\* C21: when the payload carries diagnostic text and the diagnostic channel
\* is non-empty, the merged log is the payload's text followed by the channel
\* text, for a success and for a worker-declared failure alike.
C21_ChannelTextAfterPayloadText ==
  BothLogsPresent =>
     /\ pythonResult.f[LogKey].t = "str"
     /\ StartsWith(MergedLog, PayloadLog)
     /\ EndsWith(MergedLog, stderrText)
     /\ Len(MergedLog) >= Len(PayloadLog) + Len(stderrText)

C21_Witness ==
  /\ BothLogsPresent
  /\ ~Truthy(ParsedOutput.value.f["success"])
  /\ PayloadLog = TopLogs
  /\ MergedLog = TopLogs \o <<"\n">> \o <<"w", "a", "r", "n">>
  /\ Returned

\* C22 (as claimed): wherever payload text and channel text are both
\* non-empty they are joined with a blank line between them, the same
\* separator in the success, the worker-declared-failure and the
\* parse-failure path.
C22_BlankLineBetweenLogs ==
  /\ BothLogsPresent =>
        MergedLog \in { PayloadLog \o <<"\n\n">> \o stderrText,
                        PayloadLog \o <<"\n", "\n">> \o stderrText }
  /\ (resolvedBy = "streams" /\ ~ParsedOutput.ok
        /\ stdoutText # <<>> /\ stderrText # <<>>) =>
        pythonResult.f["logs"].s = stdoutText \o <<"\n\n">> \o stderrText

\* what the code does: one line break in the success and failure paths
C22_SingleLineBreak ==
  /\ BothLogsPresent
  /\ Truthy(ParsedOutput.value.f["success"])
  /\ MergedLog = PayloadLog \o <<"\n">> \o stderrText


(***************************************************************************)
(* Two invocations of runVlmAgent in flight together. Everything           *)
(* runPythonProcess keeps (resolved, subprocess, timeout, the two drains)  *)
(* is local to the executor of its Promise (84-168), so each invocation    *)
(* has its own copy, kept here in calls[i].                                *)
(***************************************************************************)
\* the two invocations in flight together
Invocations == {1, 2}

\* what the worker of an invocation intends to write to its primary output
PairDocs ==
  { Doc(<<"success:true", "result:{}", "plan:P", "result.logs:L">>),
    <<"Traceback (most recent call last):">> }

\* the prompt of invocation i
PairPrompt(i) ==
  IF i % 2 = 1 THEN <<"Build a login form">>
  ELSE <<"x", " ", "T", "i", "m", "e", "d">>

\* an invocation before its call
InvocationIdle(i) ==
  [phase |-> "idle", prompt |-> PairPrompt(i), worker |-> "none",
   workerOut |-> <<>>, stdout |-> <<>>, resolved |-> FALSE,
   timer |-> "unset", killed |-> FALSE,
   ended |-> [stdout |-> FALSE, stderr |-> FALSE], errorEmitted |-> FALSE,
   pythonResult |-> Pending, resolvedBy |-> "none",
   agentResult |-> NotSettled]

\* every variable but calls
soloVars == <<invocationVars, prompt, norm, act, ui, broken, host, chat>>

PairInit ==
  /\ NotCalled
  /\ prompt = <<>>
  /\ norm = NormIdle
  /\ act = ActIdle
  /\ ui = UiIdle
  /\ host = HostIdle
  /\ chat = ChatIdle
  /\ calls = [i \in Invocations |-> InvocationIdle(i)]

\* resolveResult(value) of invocation c and the continuation of its await
PairResolve(c, value, by) ==
  [c EXCEPT !.pythonResult = value, !.resolvedBy = by,
            !.agentResult = runVlmAgentResult(value, c.prompt)]

\* spawn throws (99-103)
PairCallSpawnThrows(i) ==
  /\ calls[i].phase = "idle"
  /\ \E error \in ErrorValues :
       calls' = [calls EXCEPT ![i] =
                   PairResolve([@ EXCEPT !.phase = "called",
                                         !.worker = "throws"],
                               PythonAgentError(
                                 FailedToStartPrefix
                                   \o messageOf(error, UnknownSpawnError),
                                 Undefined), "spawn")]
  /\ UNCHANGED soloVars

\* spawn returns a ChildProcess; timer armed, listeners attached (94-167)
PairCallSpawned(i) ==
  /\ calls[i].phase = "idle"
  /\ \E outcome \in {"failed", "running"} :
     \E out \in IF outcome = "running" THEN PairDocs ELSE {<<>>} :
       calls' = [calls EXCEPT ![i] =
                   [@ EXCEPT !.phase = "called", !.worker = outcome,
                             !.workerOut = out, !.timer = "armed"]]
  /\ UNCHANGED soloVars

\* the worker's primary output arrives in one chunk (76)
PairStdoutData(i) ==
  /\ calls[i].worker = "running"
  /\ ~calls[i].ended.stdout
  /\ calls[i].stdout = <<>>
  /\ calls' = [calls EXCEPT ![i].stdout = calls[i].workerOut]
  /\ UNCHANGED soloVars

\* a stream of invocation i emits 'end' (77, 117-146)
PairStreamEnd(i, ch) ==
  /\ calls[i].worker \in {"failed", "running"}
  /\ ~calls[i].ended[ch]
  /\ LET c == [calls[i] EXCEPT !.ended[ch] = TRUE] IN
     calls' = [calls EXCEPT ![i] =
                 IF c.ended.stdout /\ c.ended.stderr /\ ~c.resolved
                 THEN PairResolve([c EXCEPT !.resolved = TRUE,
                                            !.timer = "cleared"],
                                  classify(c.stdout, <<>>), "streams")
                 ELSE c]
  /\ UNCHANGED soloVars

\* variant: `resolved` declared once for the module, not once per call
PairDeadlineFiresSharedFlag(i) ==
  /\ calls[i].timer = "armed"
  /\ LET c == [calls[i] EXCEPT !.timer = "fired"] IN
     calls' = IF c.resolved
              THEN [calls EXCEPT ![i] = c]
              ELSE [j \in Invocations |->
                      IF j = i
                      THEN PairResolve([c EXCEPT !.resolved = TRUE,
                                                 !.killed = TRUE],
                                       PythonAgentError(TimedOutMessage,
                                                        Undefined),
                                       "deadline")
                      ELSE [calls[j] EXCEPT !.resolved = TRUE]]
  /\ UNCHANGED soloVars

\* the deadline timer of invocation i fires (105-112)
PairDeadlineFires(i) ==
  /\ calls[i].timer = "armed"
  /\ LET c == [calls[i] EXCEPT !.timer = "fired"] IN
     calls' = [calls EXCEPT ![i] =
                 IF c.resolved THEN c
                 ELSE PairResolve([c EXCEPT !.resolved = TRUE,
                                            !.killed = TRUE],
                                  PythonAgentError(TimedOutMessage, Undefined),
                                  "deadline")]
  /\ UNCHANGED soloVars

\* the process of invocation i emits 'error' (148-156)
PairProcessError(i) ==
  /\ calls[i].worker \in {"failed", "running"}
  /\ ~calls[i].errorEmitted
  /\ LET c == [calls[i] EXCEPT !.errorEmitted = TRUE] IN
     \E error \in ErrorValues :
       calls' = [calls EXCEPT ![i] =
                   IF c.resolved THEN c
                   ELSE PairResolve([c EXCEPT !.resolved = TRUE,
                                              !.timer = "cleared"],
                                    PythonAgentError(
                                      ProcessErrorPrefix
                                        \o messageOf(error,
                                                     UnknownProcessError),
                                      Undefined), "error")]
  /\ UNCHANGED soloVars

PairNext ==
  \E i \in Invocations :
     \/ PairCallSpawnThrows(i)
     \/ PairCallSpawned(i)
     \/ PairStdoutData(i)
     \/ PairStreamEnd(i, "stdout")
     \/ PairStreamEnd(i, "stderr")
     \/ PairDeadlineFires(i)
     \/ PairProcessError(i)

PairSpec == PairInit /\ [][PairNext]_vars

\* an event of invocation i happens in this step
EventOf(i) ==
  \/ calls[i].timer = "armed" /\ calls'[i].timer = "fired"
  \/ calls'[i].ended # calls[i].ended
  \/ calls'[i].errorEmitted # calls[i].errorEmitted
  \/ calls'[i].phase # calls[i].phase
  \/ calls'[i].stdout # calls[i].stdout

\* C23: with two runVlmAgent calls in flight, no event of one invocation
\* changes the other's outcome, kills the other's process or cancels the
\* other's deadline timer.
C23_InvocationsIndependent ==
  [][ \A i \in Invocations, j \in Invocations :
        (i # j /\ EventOf(i)) =>
           /\ calls'[j].pythonResult = calls[j].pythonResult
           /\ calls'[j].agentResult = calls[j].agentResult
           /\ calls'[j].resolved = calls[j].resolved
           /\ calls'[j].killed = calls[j].killed
           /\ calls'[j].timer = calls[j].timer
    ]_vars

\* invocation 1 timed out and its worker was killed; invocation 2, in flight
\* at the same time, then succeeded with its own output
C23_Witness ==
  /\ calls[1].resolvedBy = "deadline" /\ calls[1].killed
  /\ calls[1].agentResult.usedFallback
  /\ calls[2].resolvedBy = "streams" /\ ~calls[2].killed
  /\ calls[2].timer = "cleared"
  /\ calls[2].agentResult.status.kind = "success"


\* ---------------------------------------------------------------------------
\* Client routing and the Welcome screen: Index, RequireAuth, Login, Welcome
\* under the auth state kept by useFirebaseAuth.
\* ---------------------------------------------------------------------------

MaxAuthChanges == 2
MaxComponents == 1

NoUser == "none"
Users == {NoUser, "u1"}
Paths == {"/", "/home", "/login", "/welcome"}
TabKeys == {"chat", "preview", "history"}
navItems == <<"chat", "preview", "history">>

Spinner == [view |-> "spinner", to |-> "", toFrom |-> ""]
Content(name) == [view |-> name, to |-> "", toFrom |-> ""]
Navigate(to, from) == [view |-> "navigate", to |-> to, toFrom |-> from]

\* variant: Index sends every settled visitor to /login and lets Login
\* forward the signed-in ones
IndexViaLogin(user, loading) ==
  IF loading THEN Spinner ELSE Navigate("/login", "")
Index(user, loading) ==
  IF loading THEN Spinner
  ELSE IF user = NoUser THEN Navigate("/login", "")
  ELSE Navigate("/home", "")

\* variant: RequireAuth without the user check
RequireAuthNoUserCheck(user, loading, location) ==
  IF loading THEN Spinner ELSE Content("protected")
RequireAuth(user, loading, location) ==
  IF loading THEN Spinner
  ELSE IF user = NoUser THEN Navigate("/login", location)
  ELSE Content("protected")

\* variant: Login forwards every settled visitor, signed in or not
LoginForwardsAnyone(user, loading, from) ==
  LET redirectTo == IF from # "" THEN from ELSE "/home"
  IN IF ~loading THEN Navigate(redirectTo, "")
     ELSE Content("login")
Login(user, loading, from) ==
  LET redirectTo == IF from # "" THEN from ELSE "/home"
  IN IF user # NoUser /\ ~loading THEN Navigate(redirectTo, "")
     ELSE Content("login")

Welcome(user, loading) ==
  IF loading THEN Spinner
  ELSE IF user = NoUser THEN Navigate("/login", "")
  ELSE Content("welcome")

routes(location, user, loading, from) ==
  CASE location = "/" -> Index(user, loading)
    [] location = "/home" -> RequireAuth(user, loading, location)
    [] location = "/login" -> Login(user, loading, from)
    [] location = "/welcome" -> Welcome(user, loading)

PreviewPanel(components) ==
  IF components = 0 THEN "PreviewPanel:empty" ELSE "PreviewPanel:gallery"

\* variant: the history case is missing and falls to the default
renderContentNoHistory(activeTab, components) ==
  CASE activeTab = "preview" -> PreviewPanel(components)
    [] OTHER -> "ChatPanel"
renderContent(activeTab, components) ==
  CASE activeTab = "preview" -> PreviewPanel(components)
    [] activeTab = "history" -> "HistoryPanel"
    [] OTHER -> "ChatPanel"

\* one render pass over the state u: the element of the current route and,
\* inside a rendered Welcome screen, its panel and nav buttons
Render(u) ==
  LET element == routes(u.location, u.user, u.loading, u.from)
      shown == element.view = "welcome"
  IN [u EXCEPT
        !.view = element.view, !.to = element.to, !.toFrom = element.toFrom,
        !.sawNoUser = @ \/ (~u.loading /\ u.user = NoUser),
        !.panel = IF shown THEN renderContent(u.activeTab, u.renderedComponents)
                  ELSE "none",
        !.pressed = IF shown
                    THEN { navItems[i] : i \in { k \in 1..Len(navItems) :
                                                  navItems[k] = u.activeTab } }
                    ELSE {} ]

\* state of a freshly mounted route element
Mounted(u, location, from) ==
  [u EXCEPT !.location = location, !.from = from,
            !.trail = Append(@, location),
            !.leg = Append(@, <<location, from>>),
            !.activeTab = "chat", !.renderedComponents = 0, !.last = "mount"]

\* the location state a visit can arrive with: the login route may be entered
\* with a remembered path (location.state.from.pathname), or with none
EntryStates(entry) ==
  IF entry = "/login" THEN {"", "/", "/home", "/login"} ELSE {""}

UiInit ==
  /\ NotCalled /\ prompt = <<>> /\ norm = NormIdle
  /\ act = ActIdle /\ calls = CallsIdle
  /\ host = HostIdle /\ chat = ChatIdle
  /\ \E entry \in Paths, user \in Users, loading \in BOOLEAN :
       /\ loading => user = NoUser
       /\ \E from \in EntryStates(entry) :
            ui = Render(Mounted([UiIdle EXCEPT !.pc = "ui", !.user = user,
                                              !.loading = loading,
                                              !.entry = entry],
                               entry, from))

uiFrame == <<invocationVars, prompt, norm, act, calls, broken, host, chat>>

AuthStateChanged(user) ==
  /\ ui.pc = "ui"
  /\ ui.authChanges < MaxAuthChanges
  /\ ui.loading \/ user # ui.user
  /\ ui' = Render([ui EXCEPT !.user = user, !.loading = FALSE,
                             !.authChanges = @ + 1,
                             !.leg = << <<ui.location, ui.from>> >>])
  /\ UNCHANGED uiFrame

FollowNavigate ==
  /\ ui.pc = "ui"
  /\ ui.view = "navigate"
  /\ ui' = Render(Mounted(ui, ui.to, ui.toFrom))
  /\ UNCHANGED uiFrame

\* variant: the click handler ignores the key of the button
ClickTabIgnoresKey(key) ==
  /\ ui.pc = "ui"
  /\ ui.view = "welcome"
  /\ ui' = Render([ui EXCEPT !.activeTab = "chat", !.last = key])
  /\ UNCHANGED uiFrame
ClickTab(key) ==
  /\ ui.pc = "ui"
  /\ ui.view = "welcome"
  /\ ui' = Render([ui EXCEPT !.activeTab = key, !.last = key])
  /\ UNCHANGED uiFrame

ComponentGenerated ==
  /\ ui.pc = "ui"
  /\ ui.view = "welcome"
  /\ ui.renderedComponents < MaxComponents
  /\ ui' = Render([ui EXCEPT !.renderedComponents = @ + 1])
  /\ UNCHANGED uiFrame

handleViewConversation(hasMessages) ==
  /\ ui.pc = "ui"
  /\ ui.view = "welcome"
  /\ ui.panel = "HistoryPanel"
  /\ hasMessages
  /\ ui' = Render([ui EXCEPT !.activeTab = "chat", !.last = "view"])
  /\ UNCHANGED uiFrame

UiNext ==
  \/ \E user \in Users : AuthStateChanged(user)
  \/ FollowNavigate
  \/ \E key \in TabKeys : ClickTab(key)
  \/ ComponentGenerated
  \/ \E hasMessages \in BOOLEAN : handleViewConversation(hasMessages)

UiSpec == UiInit /\ [][UiNext]_vars

\* a rendered Navigate element navigates in its effect, right after the commit
UiLiveSpec == UiSpec /\ WF_vars(FollowNavigate)


AuthSettled == ~ui.loading
SignedOut == ui.user = NoUser
GuardedEntry == ui.entry \in {"/", "/home"}

\* C24: route guarding. With auth settled and no user, a visit that began at
\* the index route or at the RequireAuth-protected route is at /login once no
\* navigation is pending, and a pending navigation heads to /login; the
\* protected content is never rendered while the user is null or auth loads.
C24_GuardedRoutesEndAtLogin ==
  /\ ui.view = "protected" => (~SignedOut /\ AuthSettled)
  /\ (AuthSettled /\ SignedOut /\ GuardedEntry) =>
        IF ui.view = "navigate" THEN ui.to = "/login"
        ELSE ui.location = "/login" /\ ui.view = "login"

\* a signed-out visit to the protected route that was sent to /login, carrying
\* the place it came from
C24_Witness ==
  /\ ui.entry = "/home" /\ AuthSettled /\ SignedOut
  /\ ui.trail = <<"/home", "/login">>
  /\ ui.from = "/home"
  /\ ui.view = "login"

UserPresent == AuthSettled /\ ~SignedOut

\* C25: with auth settled and a user present, a visit to the index route
\* reaches /home with the protected content rendered (unless the user signs
\* out first), and a visit from the index route during which auth was never
\* settled without a user never passes through /login.
C25_IndexLeadsHome ==
  /\ [](ui.entry = "/" /\ ~ui.sawNoUser => "/login" \notin Range(ui.trail))
  /\ (ui.location = "/" /\ UserPresent)
        ~> ((ui.location = "/home" /\ ui.view = "protected") \/ SignedOut)

C25_Witness ==
  /\ ui.entry = "/" /\ UserPresent /\ ~ui.sawNoUser
  /\ ui.authChanges = 0
  /\ ui.trail = <<"/", "/home">>
  /\ ui.view = "protected"

WelcomeShown == ui.view = "welcome"

\* C26: in the Welcome screen of a signed-in user the active tab starts as
\* chat, a click on a nav button makes exactly that tab active, exactly the
\* panel of the active tab is rendered, and the preview panel shows its empty
\* state while there are no generated components.
C26_ActiveTabPanelRendered ==
  WelcomeShown =>
    /\ ui.last = "mount" => ui.activeTab = "chat"
    /\ ui.last \in TabKeys => ui.activeTab = ui.last
    /\ ui.pressed = {ui.activeTab}
    /\ ui.activeTab = "chat" => ui.panel = "ChatPanel"
    /\ ui.activeTab = "history" => ui.panel = "HistoryPanel"
    /\ ui.activeTab = "preview" =>
          ui.panel \in {"PreviewPanel:empty", "PreviewPanel:gallery"}
    /\ (ui.activeTab = "preview" /\ ui.renderedComponents = 0) =>
          ui.panel = "PreviewPanel:empty"

\* the preview tab was clicked before anything was generated
C26_Witness ==
  /\ WelcomeShown /\ ui.last = "preview"
  /\ ui.renderedComponents = 0
  /\ ui.panel = "PreviewPanel:empty"

\* the history tab is active after a click on it
C26_HistoryWitness ==
  WelcomeShown /\ ui.last = "history" /\ ui.panel = "HistoryPanel"


\* C27: each invocation of runVlmAgent calls spawn exactly once: once the
\* call is made the count is one and stays one, whether the start throws or
\* fails, the deadline fires, or the output does not parse.
C27_ExactlyOneSpawn ==
  /\ spawnCount <= 1
  /\ phase = "called" => spawnCount = 1
  /\ Settled => spawnCount = 1

\* a start failure reported by the 'error' event, answered with the fallback
\* and no second spawn
C27_Witness ==
  /\ worker = "failed" /\ resolvedBy = "error"
  /\ Returned /\ agentResult.usedFallback
  /\ spawnCount = 1

BothEnded == ended.stdout /\ ended.stderr

\* C28: the primary output is classified only once both drains have seen
\* end-of-stream: a result that came from the drains implies both ends, the
\* step that produces it is the step of the second end, and the end of one
\* channel alone changes neither the result nor the `resolved` flag.
C28_ParseOnlyAfterBothEnds ==
  /\ [](resolvedBy = "streams" => BothEnded)
  /\ [][ /\ (resolvedBy' = "streams" /\ resolvedBy # "streams") =>
              (BothEnded' /\ ~BothEnded)
         /\ (ended' # ended /\ ~BothEnded') =>
              (pythonResult' = pythonResult /\ resolved' = resolved
                 /\ timer' = timer)
       ]_vars

\* the primary output is complete and its drain has ended, the diagnostic
\* drain has not, and nothing has been classified
C28_Witness ==
  /\ ended.stdout /\ ~ended.stderr
  /\ outPos = Len(workerOut) /\ outPos > 0
  /\ ~resolved /\ pythonResult = Pending
  /\ timer = "armed"

\* the same with the diagnostic drain ending first
C28_StderrFirstWitness ==
  /\ ended.stderr /\ ~ended.stdout
  /\ ~resolved /\ pythonResult = Pending


\* ---------------------------------------------------------------------------
\* Invocations in which an output channel may fail with a read error
\* ---------------------------------------------------------------------------

Channels == {"stdout", "stderr"}

\* subprocess.stdout or subprocess.stderr emits 'error'. collectStream
\* attaches 'data' and 'end' listeners only (76-77): the event has no
\* listener, so emit throws. Either the exception is uncaught and ends the
\* server process, or a process-level handler absorbs it; in both cases the
\* destroyed stream emits neither 'data' nor 'end' any more.
StreamError(ch) ==
  /\ worker \in {"failed", "running"}
  /\ ~broken.down
  /\ ~ended[ch] /\ ~broken[ch]
  /\ \E uncaught \in BOOLEAN :
       broken' = [broken EXCEPT ![ch] = TRUE, !.down = uncaught]
  /\ UNCHANGED <<invocationVars, prompt, norm, act, calls, ui, host, chat>>

ErrNext ==
  \/ ~broken.down /\ Next
  \/ \E ch \in Channels : StreamError(ch)

ErrSpec == Init /\ [][ErrNext]_vars

DrainDone(ch) == ended[ch] \/ broken[ch]

\* C29: a read error on an output channel is an empty remainder: it does not
\* take the invocation down, the channel's drain counts as complete, and once
\* both drains are complete (by end-of-stream or by error) the invocation has
\* been classified instead of waiting for the deadline.
C29_ReadErrorIsEmptyRemainder ==
  /\ ~broken.down
  /\ (\A ch \in Channels : DrainDone(ch)) => resolved

\* what the code does instead: after a read error the drains never deliver,
\* and an invocation that settles afterwards was ended by the deadline or by
\* the process 'error' event
C29_BrokenDrainNeverClassifies ==
  [][ (\E ch \in Channels : broken[ch]) => resolvedBy' \in {resolvedBy, "deadline", "error"} ]_vars

\* the diagnostic channel ended, the primary one failed after a chunk, and the
\* invocation was ended by the deadline
C29_Witness ==
  /\ broken.stdout /\ ~broken.down /\ ended.stderr
  /\ Len(stdoutChunks) > 0
  /\ resolvedBy = "deadline"


Started == worker \in {"failed", "running"}

\* C30: in an invocation whose spawn returned a process, the request is
\* written once and stdin is closed once, after the write: the write is
\* issued with the spawn and only then, stdin is ended only by the completion
\* of that write, and nothing is written or closed after the end.
C30_WriteOnceThenCloseOnce ==
  /\ [](Started <=> stdin \in {"writing", "ended"})
  /\ [][ /\ stdin' = "writing" => stdin \in {"unused", "writing"}
         /\ (stdin' = "ended" /\ stdin # "ended") => stdin = "writing"
         /\ stdin = "ended" => stdin' = "ended"
       ]_vars

\* the worker has answered and the invocation returned with stdin closed
C30_Witness ==
  /\ worker = "running" /\ stdin = "ended"
  /\ resolvedBy = "streams" /\ Returned


\* C31 (as claimed): once the deadline has expired and the worker has been
\* killed, nothing more is done with that process: stdin is neither written
\* nor closed, and no further output is read into the stream buffers.
C31_NoOperationAfterKill ==
  [][ killed =>
        /\ stdin' = stdin
        /\ stdoutChunks' = stdoutChunks
        /\ stderrChunks' = stderrChunks
    ]_vars

\* the part that holds: after the kill the outcome, the flag and the timer
\* do not change any more
C31_OutcomeFixedAfterKill ==
  [][ killed =>
        /\ pythonResult' = pythonResult
        /\ agentResult' = agentResult
        /\ resolved' = resolved
        /\ timer' = timer
    ]_vars

\* output that arrived after the kill sits in the primary buffer
C31_ReadAfterKill ==
  /\ killed /\ resolvedBy = "deadline"
  /\ Len(stdoutChunks) > 0
  /\ ~ended.stdout

StartFailed == worker \in {"throws", "failed"}

\* C32 (as claimed): when the worker fails to start, nothing else is done for
\* the invocation: no request is written to stdin, no drain result is
\* classified, and no deadline timer stays armed once the failure is reported.
C32_StartFailureStopsInvocation ==
  StartFailed =>
    /\ stdin = "unused"
    /\ resolvedBy # "streams"
    /\ Settled => timer # "armed"

\* the part that holds for a spawn that throws: nothing was armed, written or
\* attached
C32_SpawnThrowStopsInvocation ==
  worker = "throws" =>
    /\ Settled /\ resolvedBy = "spawn"
    /\ stdin = "unused" /\ timer = "unset"
    /\ ~ended.stdout /\ ~ended.stderr

\* a start failure reported by 'error' after the request was written and
\* stdin closed
C32_WrittenToFailedWorker ==
  /\ worker = "failed" /\ resolvedBy = "error"
  /\ stdin = "ended"

\* C35: a kill is issued only by the deadline firing on an unresolved
\* invocation: a killed worker means the deadline fixed the outcome, and once
\* end-of-stream on both channels or a process error has fixed it, the timer
\* is cancelled and the worker is not killed in any later step.
C35_KillOnlyOnDeadline ==
  /\ [](killed => (resolvedBy = "deadline" /\ timer = "fired"))
  /\ [](resolvedBy \in {"streams", "error"} => (~killed /\ timer = "cleared"))
  /\ [][ (resolvedBy \in {"streams", "error", "spawn"}) => ~killed' ]_vars

\* the drains fixed the outcome, the timer was cancelled, the worker has
\* exited on its own and was never killed
C35_Witness ==
  /\ resolvedBy = "streams" /\ timer = "cleared"
  /\ worker = "running" /\ exited /\ ~killed


\* ---------------------------------------------------------------------------
\* The server process: environment configuration and the launches made from it
\* ---------------------------------------------------------------------------

MaxLaunches == 2

Unset == "#unset"
EnvNames == {"PYTHON_BINARY", "PYTHON"}
EnvValues == {Unset, "python3", "/venv/bin/python"}
Environments == [EnvNames -> EnvValues]

\* resolve(repoRoot, "Image-to-Code-UI-Generation"), evaluated when the module
\* is loaded, from the location of the module file
pythonWorkingDir == <<"repoRoot", "Image-to-Code-UI-Generation">>

\* process.env.PYTHON_BINARY ?? process.env.PYTHON ?? "python", evaluated in
\* runPythonProcess on every call
pythonExecutable(env) ==
  IF env["PYTHON_BINARY"] # Unset THEN env["PYTHON_BINARY"]
  ELSE IF env["PYTHON"] # Unset THEN env["PYTHON"]
  ELSE "python"

EnvInit ==
  /\ NotCalled /\ prompt = <<>> /\ norm = NormIdle
  /\ act = ActIdle /\ calls = CallsIdle /\ ui = UiIdle /\ chat = ChatIdle
  /\ \E env \in Environments :
       host = [HostIdle EXCEPT !.pc = "env", !.startupEnv = env, !.env = env]

hostFrame == <<invocationVars, prompt, norm, act, calls, ui, broken, chat>>

\* the environment of the running server process changes
SetEnv(name, value) ==
  /\ host.pc = "env"
  /\ host.env[name] # value
  /\ host' = [host EXCEPT !.env[name] = value]
  /\ UNCHANGED hostFrame

\* one invocation reaches spawn(pythonExecutable, [pythonScriptPath], {cwd})
Launch ==
  /\ host.pc = "env"
  /\ Len(host.launched) < MaxLaunches
  /\ host' = [host EXCEPT !.launched =
                Append(@, [executable |-> pythonExecutable(host.env),
                           cwd |-> pythonWorkingDir])]
  /\ UNCHANGED hostFrame

EnvNext ==
  \/ \E name \in EnvNames, value \in EnvValues : SetEnv(name, value)
  \/ Launch

EnvSpec == EnvInit /\ [][EnvNext]_vars

StartupExecutable == pythonExecutable(host.startupEnv)

\* C33 (as claimed): every invocation starts the executable and uses the
\* working directory that the environment configuration named at process
\* startup, whatever the environment says by the time of the invocation.
C33_ExecutableFixedAtStartup ==
  \A i \in 1..Len(host.launched) :
     /\ host.launched[i].executable = StartupExecutable
     /\ host.launched[i].cwd = pythonWorkingDir

\* the part that holds: the working directory never changes
C33_WorkingDirFixed ==
  \A i \in 1..Len(host.launched) : host.launched[i].cwd = pythonWorkingDir

\* two invocations of one server process started different executables
C33_LaterLaunchFollowsEnv ==
  /\ Len(host.launched) = 2
  /\ host.launched[1].executable = StartupExecutable
  /\ host.launched[2].executable # StartupExecutable


\* ---------------------------------------------------------------------------
\* One started worker against the clock
\* ---------------------------------------------------------------------------

PYTHON_TIMEOUT_MS == 3000000

TickMs == 30 * 1000
FiveMinutesMs == 5 * 60 * 1000

\* a worker was spawned at time 0 and setTimeout(..., PYTHON_TIMEOUT_MS) armed
ClockInit ==
  /\ NotCalled /\ prompt = <<>> /\ norm = NormIdle
  /\ act = ActIdle /\ calls = CallsIdle /\ ui = UiIdle /\ chat = ChatIdle
  /\ host = [HostIdle EXCEPT !.pc = "clock", !.run = "running",
                             !.timer = "armed"]

\* time passes; an armed timer whose delay has elapsed fires before more
\* time passes
Tick ==
  /\ host.pc = "clock"
  /\ host.timer = "armed" => host.nowMs < PYTHON_TIMEOUT_MS
  /\ host.nowMs < PYTHON_TIMEOUT_MS + TickMs
  /\ host' = [host EXCEPT !.nowMs = @ + TickMs]
  /\ UNCHANGED hostFrame

\* both drains end: the outcome is fixed and the timer cleared (122-123)
WorkerFinishes ==
  /\ host.pc = "clock"
  /\ host.run = "running"
  /\ host' = [host EXCEPT !.run = "finished", !.timer = "cleared"]
  /\ UNCHANGED hostFrame

\* the timer callback runs once its delay has elapsed (105-112)
DeadlineElapses ==
  /\ host.pc = "clock"
  /\ host.timer = "armed"
  /\ host.nowMs >= PYTHON_TIMEOUT_MS
  /\ host' = [host EXCEPT !.run = "timedOut", !.timer = "fired"]
  /\ UNCHANGED hostFrame

ClockNext ==
  \/ Tick
  \/ WorkerFinishes
  \/ DeadlineElapses

ClockSpec == ClockInit /\ [][ClockNext]_vars

\* C34 (as claimed): the worker deadline is 5 minutes (a constant of
\* 300,000 ms): no worker is still running, not timed out, later than 5 minutes
\* after its start.
C34_DeadlineIsFiveMinutes ==
  host.nowMs > FiveMinutesMs => host.run # "running"

\* what the code does: the deadline is PYTHON_TIMEOUT_MS, fifty minutes
C34_DeadlineIsTheConstant ==
  /\ host.run = "running" => host.nowMs <= PYTHON_TIMEOUT_MS
  /\ host.run = "timedOut" => host.nowMs >= PYTHON_TIMEOUT_MS
  /\ PYTHON_TIMEOUT_MS = 50 * 60 * 1000

\* a worker still running, and not timed out, ten minutes after its start
C34_RunningAfterTenMinutes ==
  /\ host.run = "running" /\ host.timer = "armed"
  /\ host.nowMs = 2 * FiveMinutesMs


\* ---------------------------------------------------------------------------
\* The Welcome screen's conversation: the onboarding request and handleSubmit
\* ---------------------------------------------------------------------------

MaxEffectRuns == 2
MaxSubmits == 2

AGENT_REQUEST_TIMEOUT_MS == 240000

PromptInputs == { <<>>, <<" ">>, <<"p">> }
FileCounts == {0, 1}

ChatInit ==
  /\ NotCalled /\ prompt = <<>> /\ norm = NormIdle
  /\ act = ActIdle /\ calls = CallsIdle /\ ui = UiIdle /\ host = HostIdle
  /\ chat = [ChatIdle EXCEPT !.pc = "chat"]

chatFrame == <<invocationVars, prompt, norm, act, calls, ui, broken, host>>

\* variant: the effect has no single-shot flag
BootstrapEffectUnguarded ==
  /\ chat.pc = "chat"
  /\ chat.effectRuns < MaxEffectRuns
  /\ chat' = [chat EXCEPT !.effectRuns = @ + 1,
                          !.onboardingRequested = TRUE,
                          !.introCalls = @ + 1,
                          !.intro = "pending",
                          !.isBootstrappingAssistant = TRUE]
  /\ UNCHANGED chatFrame
\* the bootstrap effect runs (733-739); on its first run it calls
\* requestAssistantIntro, which sends the onboarding request (635-645)
BootstrapEffect ==
  /\ chat.pc = "chat"
  /\ chat.effectRuns < MaxEffectRuns
  /\ IF chat.onboardingRequested
     THEN chat' = [chat EXCEPT !.effectRuns = @ + 1]
     ELSE chat' = [chat EXCEPT !.effectRuns = @ + 1,
                               !.onboardingRequested = TRUE,
                               !.introCalls = @ + 1,
                               !.intro = "pending",
                               !.isBootstrappingAssistant = TRUE]
  /\ UNCHANGED chatFrame

IntroOutcomes == {"tips", "noMessages", "errorStatus", "throws"}

\* what the onboarding response offers to an empty chat
introMessages(outcome) ==
  IF outcome = "tips" THEN <<"tips">> ELSE <<"instructions">>

introStatus(outcome, previous) ==
  IF outcome \in {"errorStatus", "throws"} THEN "onboardingError"
  ELSE IF previous = "null" THEN "tips" ELSE previous

\* variant: the response is installed whatever the chat holds
IntroCompletesOverwrites(outcome) ==
  /\ chat.pc = "chat"
  /\ chat.intro = "pending"
  /\ chat' = [chat EXCEPT
        !.intro = "done",
        !.chatMessages = introMessages(outcome),
        !.status = introStatus(outcome, @),
        !.isBootstrappingAssistant = FALSE]
  /\ UNCHANGED chatFrame
\* the onboarding request completes: with messages, with none, with an error
\* status, or by throwing (non-OK response, network error) (646-706)
IntroCompletes(outcome) ==
  /\ chat.pc = "chat"
  /\ chat.intro = "pending"
  /\ chat' = [chat EXCEPT
        !.intro = "done",
        !.chatMessages = IF Len(@) > 0 THEN @ ELSE introMessages(outcome),
        !.status = introStatus(outcome, @),
        !.isBootstrappingAssistant = FALSE]
  /\ UNCHANGED chatFrame

\* the textarea is disabled while sending (1405)
PromptChange(value) ==
  /\ chat.pc = "chat"
  /\ ~chat.isSending
  /\ value # chat.promptValue
  /\ chat' = [chat EXCEPT !.promptValue = value, !.last = "edit"]
  /\ UNCHANGED chatFrame

\* handleFileChange (1040-1050); the add-image button is disabled while sending
FileChange(n) ==
  /\ chat.pc = "chat"
  /\ ~chat.isSending
  /\ n # chat.selectedFiles
  /\ chat' = [chat EXCEPT !.selectedFiles = n, !.last = "edit",
                          !.status = IF n > 0 THEN "ready" ELSE @]
  /\ UNCHANGED chatFrame

\* the `finally` of handleSubmit (1021-1029)
finishSubmit(c) ==
  [c EXCEPT !.promptValue = <<>>, !.selectedFiles = 0, !.isSending = FALSE,
            !.abortTimer = IF @ = "armed" THEN "cleared" ELSE @,
            !.submit = "idle"]

\* the inner catch of handleSubmit (982-1011)
failSubmit(c, isAbortError) ==
  [c EXCEPT !.abortTimer = IF @ = "armed" THEN "cleared" ELSE @,
            !.status = IF isAbortError THEN "timedOut" ELSE "unreachable",
            !.chatMessages = Append(@, "error")]

\* the form is submitted; the submit button is disabled while sending and
\* while there is neither prompt text nor a file (1451). Validation, the
\* preparation of the payload and the start of the fetch (807-889)
Submit(prepareThrows) ==
  /\ chat.pc = "chat"
  /\ ~chat.isSending
  /\ ~(trim(chat.promptValue) = <<>> /\ chat.selectedFiles = 0)
  /\ chat.requests < MaxSubmits
  /\ IF trim(chat.promptValue) = <<>>
     THEN /\ ~prepareThrows
          /\ chat' = [chat EXCEPT !.status = "needPrompt",
                                  !.last = "rejectedPrompt"]
     ELSE IF chat.selectedFiles = 0
     THEN /\ ~prepareThrows
          /\ chat' = [chat EXCEPT !.status = "needFiles",
                                  !.last = "rejectedFiles"]
     ELSE IF prepareThrows
     THEN chat' = finishSubmit(
                    [chat EXCEPT !.isSending = TRUE,
                                 !.abortTimer = "armed",
                                 !.abortDelayMs = AGENT_REQUEST_TIMEOUT_MS,
                                 !.status = "prepareError",
                                 !.last = "prepareError"])
     ELSE chat' = [chat EXCEPT !.isSending = TRUE,
                               !.status = "null",
                               !.abortTimer = "armed",
                               !.abortDelayMs = AGENT_REQUEST_TIMEOUT_MS,
                               !.chatMessages = Append(@, "user"),
                               !.requests = @ + 1,
                               !.submit = "fetching",
                               !.last = "sent"]
  /\ UNCHANGED chatFrame

\* variant: the timer is left armed when the response arrives
ResponseArrivesKeepsTimer(ok) ==
  /\ chat.pc = "chat"
  /\ chat.submit = "fetching"
  /\ chat' = [chat EXCEPT !.submit = "reading", !.ok = ok]
  /\ UNCHANGED chatFrame
\* fetch resolves with a response; clearAbortTimeout() (885-890)
ResponseArrives(ok) ==
  /\ chat.pc = "chat"
  /\ chat.submit = "fetching"
  /\ chat' = [chat EXCEPT !.submit = "reading", !.ok = ok,
                          !.abortTimer = "cleared"]
  /\ UNCHANGED chatFrame

\* variant: a non-OK response leaves the form as it is
BodyReadKeepsSending(replies) ==
  /\ chat.pc = "chat"
  /\ chat.submit = "reading"
  /\ IF chat.ok
     THEN chat' = finishSubmit(
            [chat EXCEPT !.status = "agent", !.last = "ok",
                         !.chatMessages =
                            IF replies > 0 THEN Append(@, "assistant")
                            ELSE @])
     ELSE /\ replies = 0
          /\ chat' = [failSubmit(chat, FALSE) EXCEPT !.last = "nonOk",
                                                     !.submit = "idle"]
  /\ UNCHANGED chatFrame
\* response.json() settles and the rest of handleSubmit runs: an OK response
\* appends the assistant messages and sets the status; a non-OK response
\* throws into the inner catch; then the `finally` (892-1029)
BodyRead(replies) ==
  /\ chat.pc = "chat"
  /\ chat.submit = "reading"
  /\ IF chat.ok
     THEN chat' = finishSubmit(
            [chat EXCEPT !.status = "agent", !.last = "ok",
                         !.chatMessages =
                            IF replies > 0 THEN Append(@, "assistant")
                            ELSE @])
     ELSE /\ replies = 0
          /\ chat' = finishSubmit(
               [failSubmit(chat, FALSE) EXCEPT !.last = "nonOk"])
  /\ UNCHANGED chatFrame

\* fetch rejects with a network error (982-1029)
NetworkError ==
  /\ chat.pc = "chat"
  /\ chat.submit = "fetching"
  /\ chat' = finishSubmit([failSubmit(chat, FALSE) EXCEPT !.last = "network"])
  /\ UNCHANGED chatFrame

\* the abort timer fires: controller.abort() (833-835); a fetch in flight
\* will reject with AbortError
AbortTimerFires ==
  /\ chat.pc = "chat"
  /\ chat.abortTimer = "armed"
  /\ chat' = [chat EXCEPT !.abortTimer = "fired",
                          !.submit = IF @ = "fetching" THEN "aborted" ELSE @,
                          !.last = IF chat.submit = "fetching" THEN @
                                   ELSE "lateAbort"]
  /\ UNCHANGED chatFrame

\* the aborted fetch rejects with AbortError (982-1029)
AbortDelivered ==
  /\ chat.pc = "chat"
  /\ chat.submit = "aborted"
  /\ chat' = finishSubmit([failSubmit(chat, TRUE) EXCEPT !.last = "abort"])
  /\ UNCHANGED chatFrame

ChatNext ==
  \/ BootstrapEffect
  \/ \E outcome \in IntroOutcomes : IntroCompletes(outcome)
  \/ \E value \in PromptInputs : PromptChange(value)
  \/ \E n \in FileCounts : FileChange(n)
  \/ \E prepareThrows \in BOOLEAN : Submit(prepareThrows)
  \/ \E ok \in BOOLEAN : ResponseArrives(ok)
  \/ \E replies \in {0, 1} : BodyRead(replies)
  \/ NetworkError
  \/ AbortTimerFires
  \/ AbortDelivered

ChatSpec == ChatInit /\ [][ChatNext]_vars


\* C36: per mounted Welcome screen requestAssistantIntro is called at most
\* once, and by the first run of the bootstrap effect: however often the
\* effect runs, the number of onboarding requests is one.
C36_OnboardingRequestedOnce ==
  /\ chat.introCalls <= 1
  /\ chat.effectRuns >= 1 => (chat.introCalls = 1 /\ chat.onboardingRequested)
  /\ chat.effectRuns = 0 => (chat.introCalls = 0 /\ chat.intro = "none")

\* the effect has run again after the onboarding request completed
C36_Witness ==
  /\ chat.effectRuns = 2 /\ chat.intro = "done"
  /\ chat.introCalls = 1

IntroCompletesNow == chat.intro = "pending" /\ chat'.intro = "done"

\* C37: whenever the onboarding request completes, a chat that already holds
\* messages is left unchanged; the tips or the built-in instructions are
\* installed only into an empty chat.
C37_OnboardingKeepsConversation ==
  [][ IntroCompletesNow =>
        IF Len(chat.chatMessages) > 0
        THEN chat'.chatMessages = chat.chatMessages
        ELSE chat'.chatMessages \in {<<"tips">>, <<"instructions">>}
    ]_vars

\* the onboarding request completed after the user's submission and the
\* agent's reply: the conversation is theirs
C37_Witness ==
  /\ chat.intro = "done"
  /\ chat.chatMessages = <<"user", "assistant">>
  /\ chat.status = "agent"

RejectedSubmits == {"rejectedPrompt", "rejectedFiles"}
FinishedSubmits == {"ok", "nonOk", "network", "abort", "prepareError"}

\* C38: a submission rejected by validation sends no request and leaves
\* isSending false; one that passes validation has isSending true while it
\* is in flight; however it finishes, isSending is false again and the prompt
\* and the selected files are cleared.
C38_SubmitSetsAndClearsSending ==
  /\ [](chat.last \in RejectedSubmits => ~chat.isSending /\ chat.submit = "idle")
  /\ [](chat.last = "sent" => chat.isSending /\ chat.submit # "idle")
  /\ [](chat.isSending <=> chat.submit # "idle")
  /\ [](chat.last \in FinishedSubmits =>
          /\ ~chat.isSending
          /\ chat.promptValue = <<>>
          /\ chat.selectedFiles = 0)
  /\ [][ (chat'.last \in RejectedSubmits) => chat'.requests = chat.requests ]_vars

\* a non-OK response to a request in flight has been handled
C38_Witness ==
  /\ chat.last = "nonOk" /\ ~chat.isSending
  /\ chat.requests = 1
  /\ chat.status = "unreachable"

AbortFiresNow == chat.abortTimer # "fired" /\ chat'.abortTimer = "fired"

\* C39: the abort timer runs for AGENT_REQUEST_TIMEOUT_MS = 240 s, exactly
\* while the fetch is in flight; when it fires the run is reported with the
\* timed-out status and one assistant error message; it is cleared on every
\* other completion, so it never fires after the response has arrived or
\* after the submission has finished.
C39_AbortOnlyWhileFetching ==
  /\ [](chat.abortTimer = "armed" <=> chat.submit = "fetching")
  /\ [](chat.abortTimer = "armed" => chat.abortDelayMs = 240 * 1000)
  /\ [](chat.last # "lateAbort")
  /\ [][ AbortFiresNow => chat.submit = "fetching" ]_vars
  /\ [][ (chat.submit = "aborted" /\ chat'.submit # "aborted") =>
           /\ chat'.status = "timedOut"
           /\ chat'.chatMessages = Append(chat.chatMessages, "error")
           /\ chat'.last = "abort"
       ]_vars

\* the second run was aborted by the timer after the first had succeeded
C39_Witness ==
  /\ chat.last = "abort" /\ chat.status = "timedOut"
  /\ chat.abortTimer = "fired"
  /\ chat.requests = 2
  /\ chat.chatMessages[Len(chat.chatMessages)] = "error"


NoRepeat(seq) ==
  \A i \in 1..Len(seq), j \in 1..Len(seq) : i # j => seq[i] # seq[j]

RoutedEntry == ui.entry \in {"/", "/home", "/login"}
Stable == ui.view # "navigate"

\* C40: under a fixed auth state navigation among /, /home and /login
\* settles without a redirect loop: no location (with its redirect state)
\* is visited twice while the auth state stays the same and every pending
\* redirect is followed by a state with none pending; while auth is loading
\* no redirect is issued; settled with no user means /login, settled with a
\* user means /home (also when a remembered path was followed).
C40_NavigationSettles ==
  /\ [](RoutedEntry => NoRepeat(ui.leg))
  /\ [](RoutedEntry /\ ui.loading => Stable)
  /\ []((RoutedEntry /\ Stable /\ AuthSettled /\ SignedOut) =>
           ui.location = "/login")
  /\ []((RoutedEntry /\ Stable /\ UserPresent) =>
           (ui.location = "/home" /\ ui.view = "protected"))
  /\ (RoutedEntry /\ ~Stable) ~> Stable

\* a signed-in visit to /login that remembered /login itself: forwarded to
\* /login without state, then to /home, where it settled
C40_Witness ==
  /\ ui.entry = "/login" /\ UserPresent /\ ui.authChanges = 0
  /\ ui.leg = << <<"/login", "/login">>, <<"/login", "">>, <<"/home", "">> >>
  /\ Stable /\ ui.view = "protected"

====
